---- MODULE Spec2Model ----
(***************************************************************************)
(* A model of the LVM command adapter (lvmd/command/lvm_command.go and its *)
(* pipeClosingReadCloser variant) and of the volume-group / logical-volume *)
(* domain model (lvmd/command/lvm.go).                                     *)
(*                                                                         *)
(* SpecCommand  one adapter call at a time, stepped through the points at  *)
(*              which it blocks on the subprocess.                         *)
(* Spec         the domain model: one caller holding a VolumeGroup value,  *)
(*              a LogicalVolume value and a ThinPool value, against the    *)
(*              host's LVM state.                                          *)
(* SpecVg       FindVolumeGroup and getVGReport on one decoded vgs report. *)
(* SpecLv       ThinSnapshot, Activate and Rename on a LogicalVolume.      *)
(* SpecArgs     the argument lists of the two CreateVolume methods.        *)
(* SpecAttr     ParsedLvAttr, String and VerifyHealth on one lv_attr       *)
(*              string (internal/lvmd/command/lvm_lv_attr.go).             *)
(* SpecFree     free-bytes queries on a thin pool while other actors       *)
(*              change the host.                                           *)
(* SpecLvd      CreateLV, ResizeLV and RemoveLV of the lvmd LV service.    *)
(* SpecWatch    the same with a subscriber of the VG service's Watch.      *)
(* SpecLocal    the LV service called directly and through the clients     *)
(*              NewLocal returns.                                          *)
(* SpecRpc      two CreateLV RPCs racing on one device class.              *)
(* SpecK8sCreate, SpecK8sDelete, SpecK8sGet                                *)
(*              the controller's LogicalVolume service against the API     *)
(*              server, the informer cache and the node's controller.      *)
(* SpecK8sExpand  ExpandVolume of that service on a provisioned volume.    *)
(* SpecAlloc    the minimum allocation settings of the driver.             *)
(* SpecCapacity convertRequestCapacityBytes on one capacity range.         *)
(* SpecStorage  the e2e StorageManager (test/e2e/v2): Allocate and Release.*)
(***************************************************************************)
EXTENDS Naturals, Integers, Sequences, FiniteSets, TLC

VARIABLES
    \* ---- command adapter ----
    cmdImpl,      \* which ReadCloser the build uses
    cmdInto,      \* TRUE: callLVMInto with a struct, FALSE: callLVM (into == nil)
    cmdPc,        \* position of the call
    cmdErr,       \* err returned by callLVMMStreamed
    cmdRet,       \* the error value callLVMInto returns ("nil" for success)
    cmdLogged,    \* what the deferred Close logged
    procState,    \* the lvm subprocess: none, running, exited, reaped
    procExit,     \* its exit status
    procStdout,   \* what it writes on stdout
    ctxCancelled, \* the context was cancelled while the subprocess ran
    \* ---- domain model ----
    host,         \* the LVs LVM holds on the host
    vgVal,        \* the *VolumeGroup the caller holds
    vgFrom,       \* how it was obtained: none, find, list
    lvVal,        \* the *LogicalVolume the caller holds
    poolVal,      \* the *ThinPool the caller holds (it holds one or the other)
    op,           \* the last operation and what it returned
    \* ---- single calls, each with its arguments and what it returned ----
    vgCall,       \* a volume-group lookup over one command result
    lvCall,       \* a LogicalVolume / ThinPool method and the argv it issued
    attrCall,     \* ParsedLvAttr, String and VerifyHealth on one lv_attr
    freeCall,     \* a free-bytes query on a thin pool
    \* ---- services ----
    lvd,          \* the lvmd services NewLocal wires, their notifier and a watcher
    k8s,          \* LogicalVolume CRs in the API server and the cache, and a call
    drv,          \* one call of the driver's capacity policy
    sm,           \* the e2e StorageManager: its usage and its loop devices
    rpc           \* CreateLV calls in flight on the LV service, by caller

cmdVars == <<cmdInto, cmdPc, cmdErr, cmdRet, cmdLogged, procState, procExit,
             procStdout, ctxCancelled>>
lvmVars == <<host, vgVal, vgFrom, lvVal, poolVal, op>>
callVars == <<vgCall, lvCall, attrCall, freeCall>>
svcVars == <<lvd, k8s, drv, sm, rpc>>
vars == <<cmdImpl, cmdVars, lvmVars, callVars, svcVars>>

(***************************************************************************)
(* Error values.                                                            *)
(***************************************************************************)
Nil == "nil"
ErrNotFound == "not found"
ErrExec == "failed to execute command"
ErrTooLong == "bufio.Scanner: token too long"
ErrEOF == "EOF"
ErrSyntax == "invalid character"
ErrPipeClose == "close |0: file already closed"
ErrExit == "exit status 5"
ErrExitStderr == "exit status 5: <stderr>"
ErrCanceled == "context canceled"
ErrShrink == "volume cannot be shrunk"
Panic == "panic: nil pointer dereference"

\* The two builds of the adapter: runCommand returning (nil, err) with a
\* commandReadCloser, and callLVMMStreamed returning an io.NopCloser with a
\* pipeClosingReadCloser.
CommandReadCloser == "commandReadCloser"
PipeClosingReadCloser == "pipeClosingReadCloser"
Impls == {CommandReadCloser, PipeClosingReadCloser}

\* What the subprocess may write on its stdout.
Stdouts == {"json", "lines", "empty", "toolong"}
\* Exit statuses: 0 and LVM's exit 5.
ExitCodes == {0, 5}

(***************************************************************************)
(* Pure parts of the adapter.                                               *)
(***************************************************************************)
\* bufio.Scanner over stdout: Err() is nil at EOF, ErrTooLong on an
\* over-long line.
scannerErr(stdout) == IF stdout = "toolong" THEN ErrTooLong ELSE Nil

\* json.NewDecoder(output).Decode(&into)
decodeErr(stdout) ==
    CASE stdout = "json" -> Nil
      [] stdout = "empty" -> ErrEOF
      [] OTHER -> ErrSyntax

\* The value callLVMInto returns once the subprocess has been started: the
\* scanner's or the decoder's error.  The error of the deferred Close is
\* logged, never returned.
bodyErr(into, stdout) == IF into THEN decodeErr(stdout) ELSE scannerErr(stdout)

\* cmd.Wait() after Start(): an *exec.ExitError for a non-zero exit.  Its
\* Stderr field is filled by Cmd.Output only; here it is nil.
waitErr(exit) ==
    IF exit = 0 THEN [isExit |-> FALSE, msg |-> Nil, stderr |-> FALSE]
    ELSE [isExit |-> TRUE, msg |-> ErrExit, stderr |-> FALSE]

\* lvmErr / lvmErrToString: an ExitError becomes its String() plus its Stderr
\* when that is non-nil.
lvmErr(e) ==
    IF e.isExit
    THEN IF e.stderr THEN ErrExitStderr ELSE ErrExit
    ELSE e.msg

\* The deferred output.Close() on the path where the subprocess was never
\* started: a method call on a nil interface (runCommand) or an
\* io.NopCloser (pipeClosingReadCloser build).
closeUnstartedPanics(impl) == impl = CommandReadCloser

CarriesStderr(e) == e = ErrExitStderr

(***************************************************************************)
(* The adapter, stepped.                                                    *)
(***************************************************************************)
CmdInit ==
    /\ cmdInto = FALSE
    /\ cmdPc = "idle"
    /\ cmdErr = Nil
    /\ cmdRet = "none"
    /\ cmdLogged = "none"
    /\ procState = "none"
    /\ procExit = 0
    /\ procStdout = "empty"
    /\ ctxCancelled = FALSE

\* callLVMInto up to the point where it reads: callLVMMStreamed creates the
\* stdout pipe and starts the subprocess.  When either fails the function
\* returns the wrapped error and the deferred Close runs on what
\* callLVMMStreamed returned.
CmdStart(impl, into, pipeOk, startOk, out) ==
    /\ cmdPc = "idle"
    /\ cmdImpl' = impl
    /\ cmdInto' = into
    /\ cmdLogged' = "none"
    /\ ctxCancelled' = FALSE
    /\ procExit' = 0
    /\ IF pipeOk /\ startOk
       THEN /\ cmdErr' = Nil
            /\ procState' = "running"
            /\ procStdout' = out
            /\ cmdRet' = "none"
            /\ cmdPc' = "reading"
       ELSE /\ cmdErr' = IF pipeOk THEN "start" ELSE "pipe"
            /\ procState' = "none"
            /\ procStdout' = "empty"
            /\ IF closeUnstartedPanics(impl)
               THEN /\ cmdRet' = "none"
                    /\ cmdPc' = "panicked"
               ELSE /\ cmdRet' = ErrExec
                    /\ cmdPc' = "returned"

\* The subprocess ends on its own.
ProcExit(code) ==
    /\ procState = "running"
    /\ procState' = "exited"
    /\ procExit' = code
    /\ UNCHANGED <<cmdImpl, cmdInto, cmdPc, cmdErr, cmdRet, cmdLogged,
                   procStdout, ctxCancelled>>

\* The caller's context is cancelled while the subprocess runs.  The command
\* is built by exec.Command, so nothing in the adapter observes it.
CtxCancel ==
    /\ cmdPc \in {"reading", "closing", "waiting"}
    /\ procState = "running"
    /\ ~ctxCancelled
    /\ ctxCancelled' = TRUE
    /\ UNCHANGED <<cmdImpl, cmdInto, cmdPc, cmdErr, cmdRet, cmdLogged,
                   procState, procExit, procStdout>>

\* The scan loop or the decode.  The scanner reads to EOF, which comes when
\* the subprocess has exited, or stops at an over-long line; the decoder
\* returns after one JSON value or at the first character that is none.
CmdBody ==
    /\ cmdPc = "reading"
    /\ \/ procState = "exited"
       \/ cmdInto /\ procStdout \in {"json", "lines", "toolong"}
       \/ ~cmdInto /\ procStdout = "toolong"
    /\ cmdRet' = bodyErr(cmdInto, procStdout)
    /\ cmdPc' = "closing"
    /\ UNCHANGED <<cmdImpl, cmdInto, cmdErr, cmdLogged, procState, procExit,
                   procStdout, ctxCancelled>>

\* Close(), first half: p.ReadCloser.Close().  When it fails Close returns
\* that error, which the deferred function logs, and Wait is not called.
CmdClosePipe(closeOk) ==
    /\ cmdPc = "closing"
    /\ IF closeOk
       THEN /\ cmdPc' = "waiting"
            /\ cmdLogged' = cmdLogged
       ELSE /\ cmdPc' = "returned"
            /\ cmdLogged' = ErrPipeClose
    /\ UNCHANGED <<cmdImpl, cmdInto, cmdErr, cmdRet, procState, procExit,
                   procStdout, ctxCancelled>>

\* Close(), second half: cmd.Wait() returns once the subprocess has exited
\* and reaps it; a non-zero exit is logged through lvmErr.
CmdWait ==
    /\ cmdPc = "waiting"
    /\ procState = "exited"
    /\ procState' = "reaped"
    /\ cmdLogged' = IF lvmErr(waitErr(procExit)) = Nil THEN "none"
                    ELSE lvmErr(waitErr(procExit))
    /\ cmdPc' = "returned"
    /\ UNCHANGED <<cmdImpl, cmdInto, cmdErr, cmdRet, procExit, procStdout,
                   ctxCancelled>>

\* The caller goes on to its next call (after a panic: the daemon restarts).
CmdNext ==
    /\ cmdPc \in {"returned", "panicked"}
    /\ cmdInto' = FALSE
    /\ cmdPc' = "idle"
    /\ cmdErr' = Nil
    /\ cmdRet' = "none"
    /\ cmdLogged' = "none"
    /\ procState' = "none"
    /\ procExit' = 0
    /\ procStdout' = "empty"
    /\ ctxCancelled' = FALSE
    /\ UNCHANGED cmdImpl

(***************************************************************************)
(* The domain model: data.                                                  *)
(***************************************************************************)
\* Model bounds.
MaxSize == 3       \* largest size a caller asks for
ExtentSize == 2    \* LVM rounds sizes up to a multiple of the extent size
VgSize == 8        \* capacity of each volume group

VgNames == {"vg0", "vg1"}
LvNames == {"a", "b", "p"}
\* The order in which a report lists LVs.
LvKeys == << <<"vg0", "a">>, <<"vg0", "b">>, <<"vg0", "p">>,
             <<"vg1", "a">>, <<"vg1", "b">>, <<"vg1", "p">> >>
Sizes == 1..MaxSize

\* What the environment does to one subprocess: nothing, an exit 5 that
\* leaves LVM's state alone, or a subprocess that cannot be started.
Faults == {"none", "exit5", "startFail"}

RoundUp(n) == ((n + ExtentSize - 1) \div ExtentSize) * ExtentSize

\* One row of an lvs report (the fields lvm.go reads).
mkLv(vg, name, size, origin, originSize, pool, thinPool) ==
    [name |-> name, vgName |-> vg, fullName |-> <<vg, name>>,
     path |-> <<"/dev", vg, name>>, size |-> size, origin |-> origin,
     originSize |-> originSize, poolLV |-> pool, thinPool |-> thinPool]

\* lv.isThinPool(): the LV's attribute says VolumeType = ThinPool.
isThinPool(l) == l.thinPool

RECURSIVE SumSizes(_)
SumSizes(S) ==
    IF S = {} THEN 0
    ELSE LET l == CHOOSE x \in S : TRUE IN l.size + SumSizes(S \ {l})

\* vg_free: what the VG's thick LVs, snapshots and pools leave.
VgFree(h, vg) == VgSize - SumSizes({l \in h : l.vgName = vg /\ l.poolLV = ""})

\* One row of a vgs report.
VgRow(h, vg) ==
    [name |-> vg, uuid |-> <<"uuid", vg>>, size |-> VgSize, free |-> VgFree(h, vg)]

RECURSIVE ReportFrom(_, _)
ReportFrom(S, i) ==
    IF i > Len(LvKeys) THEN <<>>
    ELSE LET m == {l \in S : l.vgName = LvKeys[i][1] /\ l.name = LvKeys[i][2]}
         IN (IF m = {} THEN <<>> ELSE <<CHOOSE l \in m : TRUE>>)
            \o ReportFrom(S, i + 1)

\* The LVs of a set as a report lists them.
Report(S) == ReportFrom(S, 1)

\* The subprocess the environment gives for a fault: started or not, its
\* exit status, and its stdout (a report command prints JSON, any other
\* command prints lines; an exit-5 report command prints nothing).
Outcome(fault, isReport) ==
    [started |-> fault # "startFail",
     exit |-> IF fault = "none" THEN 0 ELSE 5,
     stdout |-> IF fault = "none" THEN (IF isReport THEN "json" ELSE "lines")
                ELSE IF isReport THEN "empty" ELSE "lines"]

\* callLVMInto as its caller sees it: it panics in the deferred Close or
\* returns the wrapped start error when the subprocess was not started, and
\* otherwise returns what the scan or the decode returned.
callLVMInto(impl, into, o) ==
    [panics |-> ~o.started /\ closeUnstartedPanics(impl),
     err |-> IF ~o.started THEN ErrExec ELSE bodyErr(into, o.stdout)]

\* callLVM: callLVMInto with into == nil.
callLVM(impl, o) == callLVMInto(impl, FALSE, o)

(***************************************************************************)
(* What LVM does on the host when a command runs to exit 0.                 *)
(***************************************************************************)
HostLv(h, vg, name) == {l \in h : l.vgName = vg /\ l.name = name}

\* lvcreate -n name -L size vg: refused when the name is taken or the VG has
\* not enough free extents.
HostCreate(h, vg, name, size) ==
    IF HostLv(h, vg, name) = {} /\ RoundUp(size) <= VgFree(h, vg)
    THEN h \cup {mkLv(vg, name, RoundUp(size), "", 0, "", FALSE)}
    ELSE h

\* lvresize -L size vg/name: the LV grows to the next extent boundary; LVM
\* refuses a size that is not above the present one, and a growth the VG
\* cannot hold (a thin volume's virtual size takes no VG space).
HostResize(h, vg, name, size) ==
    LET m == HostLv(h, vg, name) IN
    IF m = {} THEN h
    ELSE LET l == CHOOSE x \in m : TRUE IN
         IF RoundUp(size) > l.size
            /\ (l.poolLV # "" \/ RoundUp(size) - l.size <= VgFree(h, vg))
         THEN (h \ {l}) \cup {[l EXCEPT !.size = RoundUp(size)]}
         ELSE h

(***************************************************************************)
(* lvm.go: lookups.  Each returns what the Go function returns, the         *)
(* commands it invoked (cmds), the error the adapter gave for the last of   *)
(* them (adapterErr), and whether it panicked.  An operator named ...Of     *)
(* is the part of the function that follows the call whose result it takes. *)
(***************************************************************************)
\* getLVs with a non-empty vg.reportLvs: the cached rows, or the one of the
\* name asked for.
getLVsCached(vg, lvname) ==
    IF lvname # ""
    THEN LET hits == SelectSeq(vg.reportLvs, LAMBDA l : l.name = lvname) IN
         IF Len(hits) > 0
         THEN [lvs |-> <<hits[1]>>, err |-> Nil, cmds |-> <<>>,
               adapterErr |-> Nil, panics |-> FALSE]
         ELSE [lvs |-> <<>>, err |-> ErrNotFound, cmds |-> <<>>,
               adapterErr |-> Nil, panics |-> FALSE]
    ELSE [lvs |-> vg.reportLvs, err |-> Nil, cmds |-> <<>>,
          adapterErr |-> Nil, panics |-> FALSE]

\* getLVs after callLVMInto(ctx, res, "lvs", ...) returned c, rows being what
\* LVM reports.  An empty res.Report is ErrNotFound before err is looked at.
getLVsOf(c, rows) ==
    LET resReport == IF c.err = Nil THEN <<rows>> ELSE <<>>
        lvs == IF c.panics THEN <<>>
               ELSE IF Len(resReport) = 0 THEN <<>>
               ELSE IF c.err # Nil THEN <<>>
               ELSE resReport[1]
        err == IF c.panics THEN Panic
               ELSE IF Len(resReport) = 0 THEN ErrNotFound
               ELSE IF c.err # Nil THEN c.err
               ELSE IF Len(resReport[1]) = 0 THEN ErrNotFound
               ELSE Nil
    IN [lvs |-> lvs, err |-> err, cmds |-> <<"lvs">>, adapterErr |-> c.err,
        panics |-> c.panics]

\* getLVs: answered from vg.reportLvs when that is non-empty, else by
\*     lvs <vg>[/<lvname>] -o ... --reportformat json
getLVs(impl, vg, lvname, h, fault) ==
    IF Len(vg.reportLvs) > 0
    THEN getLVsCached(vg, lvname)
    ELSE getLVsOf(callLVMInto(impl, TRUE, Outcome(fault, TRUE)),
                  Report({l \in h : l.vgName = vg.state.name
                                    /\ (lvname = "" \/ l.name = lvname)}))

\* convertLV and newLogicalVolume: a snapshot that is not thin shows its
\* origin's size.
convertLV(vg, l) ==
    [fullname |-> <<vg.state.name, l.name>>,
     name |-> l.name,
     path |-> l.path,
     size |-> IF l.origin # "" /\ l.poolLV = "" THEN l.originSize ELSE l.size,
     origin |-> l.origin,
     pool |-> l.poolLV]

ConvertAll(vg, kept) == [i \in 1..Len(kept) |-> convertLV(vg, kept[i])]

ListVolumesOf(vg, g) ==
    [vols |-> IF g.err # Nil THEN <<>>
              ELSE ConvertAll(vg, SelectSeq(g.lvs, LAMBDA l : ~isThinPool(l))),
     err |-> g.err, cmds |-> g.cmds, adapterErr |-> g.adapterErr,
     panics |-> g.panics]

\* vg.ListVolumes(name): the LVs of getLVs that are no thin pool, converted.
ListVolumes(impl, vg, name, h, fault) ==
    ListVolumesOf(vg, getLVs(impl, vg, name, h, fault))

FindVolumeOf(name, r) ==
    LET hit == SelectSeq(r.vols, LAMBDA v : v.name = name) IN
    [vol |-> IF r.err # Nil \/ Len(hit) = 0 THEN <<>> ELSE <<hit[Len(hit)]>>,
     err |-> IF r.err # Nil THEN r.err
             ELSE IF Len(hit) = 0 THEN ErrNotFound ELSE Nil,
     cmds |-> r.cmds, adapterErr |-> r.adapterErr, panics |-> r.panics]

\* vg.FindVolume(name): volumes[name] of ListVolumes(name).
FindVolume(impl, vg, name, h, fault) ==
    FindVolumeOf(name, ListVolumes(impl, vg, name, h, fault))

FindPoolOf(g) ==
    [pool |-> IF g.err # Nil THEN <<>> ELSE <<[state |-> g.lvs[1]]>>,
     err |-> g.err, cmds |-> g.cmds, adapterErr |-> g.adapterErr,
     panics |-> g.panics]

\* vg.FindPool(name): pools[0] of getLVs(name), whatever its type.
FindPool(impl, vg, name, h, fault) == FindPoolOf(getLVs(impl, vg, name, h, fault))

WrapPools(kept) == [i \in 1..Len(kept) |-> [state |-> kept[i]]]

ListPoolsOf(g) ==
    [pools |-> IF g.err # Nil THEN <<>>
               ELSE WrapPools(SelectSeq(g.lvs, LAMBDA l : isThinPool(l))),
     err |-> g.err, cmds |-> g.cmds, adapterErr |-> g.adapterErr,
     panics |-> g.panics]

\* vg.ListPools(): the thin pools of getLVs("").
ListPools(impl, vg, h, fault) == ListPoolsOf(getLVs(impl, vg, "", h, fault))

\* FindVolumeGroup after callLVMInto(ctx, res, "vgs", name, ...) returned c,
\* resVG being the VG entries the decoder put into res.  The report is
\* searched first; err is returned before "not found".
FindVolumeGroupOf(name, c, resVG) ==
    LET hit == SelectSeq(resVG, LAMBDA v : v.name = name)
    IN [vg |-> IF c.panics \/ c.err # Nil \/ Len(hit) = 0 THEN <<>>
               ELSE <<[state |-> hit[1], reportLvs |-> <<>>]>>,
        err |-> IF c.panics THEN Panic
                ELSE IF c.err # Nil THEN c.err
                ELSE IF Len(hit) = 0 THEN ErrNotFound ELSE Nil,
        cmds |-> <<"vgs">>, panics |-> c.panics]

\* FindVolumeGroup(name): vgs <name> -o vg_uuid,vg_name,vg_size,vg_free ...
FindVolumeGroup(impl, name, h, fault) ==
    FindVolumeGroupOf(name, callLVMInto(impl, TRUE, Outcome(fault, TRUE)),
                      IF fault = "none" /\ name \in VgNames
                      THEN <<VgRow(h, name)>> ELSE <<>>)

getLVMStateOf(c, h) ==
    [vgs |-> IF c.err = Nil THEN <<VgRow(h, "vg0"), VgRow(h, "vg1")>> ELSE <<>>,
     lvs |-> IF c.err = Nil THEN Report(h) ELSE <<>>,
     err |-> c.err, panics |-> c.panics]

\* getLVMState: one fullreport invocation giving every VG and every LV.
getLVMState(impl, h, fault) ==
    getLVMStateOf(callLVMInto(impl, TRUE, Outcome(fault, TRUE)), h)

filter_lv(vg_name, lvs) == SelectSeq(lvs, LAMBDA l : l.vgName = vg_name)

ListVolumeGroupsOf(s) ==
    [groups |-> IF s.panics \/ s.err # Nil THEN <<>>
                ELSE [i \in 1..Len(s.vgs) |->
                        [state |-> s.vgs[i],
                         reportLvs |-> filter_lv(s.vgs[i].name, s.lvs)]],
     err |-> IF s.panics THEN Panic ELSE s.err,
     cmds |-> <<"fullreport">>, panics |-> s.panics]

\* ListVolumeGroups: every VG of getLVMState with its LVs filtered by VG name.
ListVolumeGroups(impl, h, fault) == ListVolumeGroupsOf(getLVMState(impl, h, fault))

\* SearchVolumeGroupList: the first VG of that name.
SearchVolumeGroupList(vgs, name) ==
    LET hit == SelectSeq(vgs, LAMBDA v : v.state.name = name) IN
    IF Len(hit) = 0 THEN [vg |-> <<>>, err |-> ErrNotFound]
    ELSE [vg |-> <<hit[1]>>, err |-> Nil]

(***************************************************************************)
(* lvm.go: mutations.  Each returns the error, the host after it, the       *)
(* commands invoked, and whether the mutating command ran to exit 0.        *)
(***************************************************************************)
CreateVolumeOf(c, h, h2) ==
    [err |-> IF c.panics THEN Panic ELSE c.err, host |-> h2,
     cmds |-> <<"lvcreate">>, adapterErr |-> c.err,
     applied |-> h2 # h, panics |-> c.panics]

\* vg.CreateVolume(name, size, ...): lvcreate -n <name> -L <size>b ... <vg>
CreateVolume(impl, vg, name, size, h, fault) ==
    CreateVolumeOf(callLVM(impl, Outcome(fault, FALSE)), h,
                   IF fault = "none" THEN HostCreate(h, vg.state.name, name, size)
                   ELSE h)

\* The host after lvresize on fullname under the fault.
ResizedHost(h, fullname, newSize, f1) ==
    IF f1 = "none" THEN HostResize(h, fullname[1], fullname[2], newSize) ELSE h

\* Resize after callLVM(ctx, "lvresize", ...) returned c: the error is
\* returned, else l.size is taken from fv, the result of
\* l.vg.FindVolume(l.name).
ResizeOf(l, cmd, c, h, h2, fv) ==
    IF c.panics \/ c.err # Nil
    THEN [l |-> l, err |-> IF c.panics THEN Panic ELSE c.err, host |-> h2,
          cmds |-> <<cmd>>, adapterErr |-> c.err,
          applied |-> h2 # h, panics |-> c.panics]
    ELSE [l |-> IF fv.err # Nil THEN l ELSE [l EXCEPT !.size = fv.vol[1].size],
          err |-> fv.err, host |-> h2, cmds |-> <<cmd>> \o fv.cmds,
          adapterErr |-> fv.adapterErr, applied |-> h2 # h,
          panics |-> fv.panics]

ResizeNoCommand(l, h, err) ==
    [l |-> l, err |-> err, host |-> h, cmds |-> <<>>,
     adapterErr |-> Nil, applied |-> FALSE, panics |-> FALSE]

\* Resize without its two size checks.
LogicalVolumeResizeUnchecked(impl, l, vg, newSize, h, f1, f2) ==
    ResizeOf(l, "lvresize", callLVM(impl, Outcome(f1, FALSE)), h,
             ResizedHost(h, l.fullname, newSize, f1),
             FindVolume(impl, vg, l.name,
                        ResizedHost(h, l.fullname, newSize, f1), f2))

\* lv.Resize(newSize): an error for a shrink, nothing for the same size, else
\*     lvresize -L <newSize>b <fullname>
\* and l.size taken from l.vg.FindVolume(l.name).
LogicalVolumeResize(impl, l, vg, newSize, h, f1, f2) ==
    IF l.size > newSize THEN ResizeNoCommand(l, h, ErrShrink)
    ELSE IF l.size = newSize THEN ResizeNoCommand(l, h, Nil)
    ELSE ResizeOf(l, "lvresize", callLVM(impl, Outcome(f1, FALSE)), h,
                  ResizedHost(h, l.fullname, newSize, f1),
                  FindVolume(impl, vg, l.name,
                             ResizedHost(h, l.fullname, newSize, f1), f2))

\* The ThinPool with the size ResizeOf settled on.
PoolWithSize(t, r) ==
    [t |-> [t EXCEPT !.state.size = r.l.size], err |-> r.err, host |-> r.host,
     cmds |-> r.cmds, adapterErr |-> r.adapterErr, applied |-> r.applied,
     panics |-> r.panics]

\* pool.Resize(newSize): nothing for the same size, else
\*     lvresize -f -L <newSize>b <fullName>
\* and t.state.size taken from t.vg.FindVolume(t.Name()).
ThinPoolResize(impl, t, vg, newSize, h, f1, f2) ==
    IF t.state.size = newSize
    THEN PoolWithSize(t, ResizeNoCommand(t.state, h, Nil))
    ELSE PoolWithSize(t,
            ResizeOf(t.state, "lvresize -f", callLVM(impl, Outcome(f1, FALSE)), h,
                     ResizedHost(h, t.state.fullName, newSize, f1),
                     FindVolume(impl, vg, t.state.name,
                                ResizedHost(h, t.state.fullName, newSize, f1), f2)))

UpdateOf(vg, r) ==
    [vg |-> IF r.err # Nil THEN vg
            ELSE [state |-> r.vg[1].state, reportLvs |-> <<>>],
     err |-> r.err, cmds |-> r.cmds, panics |-> r.panics]

\* vg.Update(): FindVolumeGroup(vg.Name()); on success the cached LVs are
\* dropped and the state replaced.
Update(impl, vg, h, fault) == UpdateOf(vg, FindVolumeGroup(impl, vg.state.name, h, fault))

(***************************************************************************)
(* The domain model as a state machine.                                     *)
(***************************************************************************)
mkOp(name, argName, argSize, err, cmds, adapterErr, applied, old, ret) ==
    [name |-> name, argName |-> argName, argSize |-> argSize, err |-> err,
     cmds |-> cmds, adapterErr |-> adapterErr, applied |-> applied,
     old |-> old, ret |-> ret]

NoOp == mkOp("none", "", 0, Nil, <<>>, Nil, FALSE, 0, {})

\* Hosts the model starts from.  vg0 is the volume group the caller works
\* on: empty, or a thin pool p with a thin volume, or a thick snapshot a
\* and its origin b.  vg1 is another volume group of the host.
InitHosts ==
    { {mkLv("vg1", "a", 2, "", 0, "", FALSE)},
      {mkLv("vg0", "p", 2, "", 0, "", TRUE), mkLv("vg0", "a", 2, "", 0, "p", FALSE),
       mkLv("vg1", "a", 2, "", 0, "", FALSE), mkLv("vg1", "p", 2, "", 0, "", TRUE)},
      {mkLv("vg0", "a", 2, "b", 4, "", FALSE), mkLv("vg0", "b", 4, "", 0, "", FALSE)} }

\* The caller holds nothing yet.
LvmIdle ==
    /\ vgVal = <<>>
    /\ vgFrom = "none"
    /\ lvVal = <<>>
    /\ poolVal = <<>>
    /\ op = NoOp

LvmInit == host \in InitHosts /\ LvmIdle

Names(vols) == {vols[i].name : i \in 1..Len(vols)}

Running == op.err # Panic

\* A panic ends the daemon; it comes up again holding nothing.
Restart ==
    /\ op.err = Panic
    /\ vgVal' = <<>>
    /\ vgFrom' = "none"
    /\ lvVal' = <<>>
    /\ poolVal' = <<>>
    /\ op' = NoOp
    /\ UNCHANGED host

FindVolumeGroupStep(name, r) ==
    /\ op' = mkOp("FindVolumeGroup", name, 0, r.err, r.cmds, Nil, FALSE, 0, {})
    /\ IF r.panics
       THEN UNCHANGED <<vgVal, vgFrom>>
       ELSE /\ vgVal' = r.vg
            /\ vgFrom' = IF r.err = Nil THEN "find" ELSE "none"
    /\ lvVal' = <<>>
    /\ poolVal' = <<>>
    /\ UNCHANGED host

DoFindVolumeGroup(name, fault) ==
    /\ Running
    /\ FindVolumeGroupStep(name, FindVolumeGroup(cmdImpl, name, host, fault))

ListVolumeGroupsStep(name, r, s) ==
    /\ op' = mkOp("ListVolumeGroups", name, 0, IF r.err # Nil THEN r.err ELSE s.err,
                  r.cmds, Nil, FALSE, 0, {})
    /\ IF r.panics
       THEN UNCHANGED <<vgVal, vgFrom>>
       ELSE /\ vgVal' = s.vg
            /\ vgFrom' = IF r.err = Nil /\ s.err = Nil THEN "list" ELSE "none"
    /\ lvVal' = <<>>
    /\ poolVal' = <<>>
    /\ UNCHANGED host

ListVolumeGroupsPick(name, r) ==
    ListVolumeGroupsStep(name, r, SearchVolumeGroupList(r.groups, name))

\* ListVolumeGroups, and the caller keeping the VG of one name.
DoListVolumeGroups(name, fault) ==
    /\ Running
    /\ ListVolumeGroupsPick(name, ListVolumeGroups(cmdImpl, host, fault))

UpdateStep(r) ==
    /\ op' = mkOp("Update", "", 0, r.err, r.cmds, Nil, FALSE, 0, {})
    /\ vgVal' = <<r.vg>>
    /\ vgFrom' = IF r.err = Nil THEN "find" ELSE vgFrom
    /\ UNCHANGED <<host, lvVal, poolVal>>

DoUpdate(fault) ==
    /\ Running
    /\ vgVal # <<>>
    /\ UpdateStep(Update(cmdImpl, vgVal[1], host, fault))

ListVolumesStep(r) ==
    /\ op' = mkOp("ListVolumes", "", 0, r.err, r.cmds, r.adapterErr, FALSE, 0,
                  Names(r.vols))
    /\ UNCHANGED <<host, vgVal, vgFrom, lvVal, poolVal>>

DoListVolumes(fault) ==
    /\ Running
    /\ vgVal # <<>>
    /\ ListVolumesStep(ListVolumes(cmdImpl, vgVal[1], "", host, fault))

FindVolumeStep(name, r) ==
    /\ op' = mkOp("FindVolume", name, 0, r.err, r.cmds, r.adapterErr, FALSE, 0,
                  Names(r.vol))
    /\ lvVal' = r.vol
    /\ poolVal' = <<>>
    /\ UNCHANGED <<host, vgVal, vgFrom>>

DoFindVolume(name, fault) ==
    /\ Running
    /\ vgVal # <<>>
    /\ FindVolumeStep(name, FindVolume(cmdImpl, vgVal[1], name, host, fault))

ListPoolsStep(r) ==
    /\ op' = mkOp("ListPools", "", 0, r.err, r.cmds, r.adapterErr, FALSE, 0,
                  {r.pools[i].state.name : i \in 1..Len(r.pools)})
    /\ UNCHANGED <<host, vgVal, vgFrom, lvVal, poolVal>>

DoListPools(fault) ==
    /\ Running
    /\ vgVal # <<>>
    /\ ListPoolsStep(ListPools(cmdImpl, vgVal[1], host, fault))

FindPoolStep(name, r) ==
    /\ op' = mkOp("FindPool", name, 0, r.err, r.cmds, r.adapterErr, FALSE, 0,
                  {r.pool[i].state.name : i \in 1..Len(r.pool)})
    /\ poolVal' = r.pool
    /\ lvVal' = <<>>
    /\ UNCHANGED <<host, vgVal, vgFrom>>

DoFindPool(name, fault) ==
    /\ Running
    /\ vgVal # <<>>
    /\ FindPoolStep(name, FindPool(cmdImpl, vgVal[1], name, host, fault))

CreateVolumeStep(name, size, r) ==
    /\ op' = mkOp("CreateVolume", name, size, r.err, r.cmds, r.adapterErr,
                  r.applied, 0, {})
    /\ host' = r.host
    /\ UNCHANGED <<vgVal, vgFrom, lvVal, poolVal>>

DoCreateVolume(name, size, fault) ==
    /\ Running
    /\ vgVal # <<>>
    /\ CreateVolumeStep(name, size,
                        CreateVolume(cmdImpl, vgVal[1], name, size, host, fault))

LvResizeStep(newSize, r) ==
    /\ op' = mkOp("Resize", lvVal[1].name, newSize, r.err, r.cmds, r.adapterErr,
                  r.applied, lvVal[1].size, {})
    /\ host' = r.host
    /\ lvVal' = <<r.l>>
    /\ UNCHANGED <<vgVal, vgFrom, poolVal>>

DoLvResize(newSize, f1, f2) ==
    /\ Running
    /\ vgVal # <<>>
    /\ lvVal # <<>>
    /\ LvResizeStep(newSize, LogicalVolumeResize(cmdImpl, lvVal[1], vgVal[1],
                                                 newSize, host, f1, f2))

PoolResizeStep(newSize, r) ==
    /\ op' = mkOp("PoolResize", poolVal[1].state.name, newSize, r.err, r.cmds,
                  r.adapterErr, r.applied, poolVal[1].state.size, {})
    /\ host' = r.host
    /\ poolVal' = <<r.t>>
    /\ UNCHANGED <<vgVal, vgFrom, lvVal>>

DoPoolResize(newSize, f1, f2) ==
    /\ Running
    /\ vgVal # <<>>
    /\ poolVal # <<>>
    /\ PoolResizeStep(newSize, ThinPoolResize(cmdImpl, poolVal[1], vgVal[1],
                                              newSize, host, f1, f2))

(***************************************************************************)
(* Volume-group lookups over one command result (lvm.go FindVolumeGroup,    *)
(* lvm_vgs.go getVGReport).                                                 *)
(***************************************************************************)
MaxRows == 2       \* most VG entries in one vgs report

ErrParseUint == "strconv.ParseUint: invalid syntax"

\* vg.UnmarshalJSON: name and uuid are set, then vg_size and vg_free are
\* parsed; the first that is no number ends the decode with its error and
\* leaves the fields after it at zero.
vgUnmarshalJSON(name, size, free, bad) ==
    [name |-> name, uuid |-> <<"uuid", name>>,
     size |-> IF bad = "size" THEN 0 ELSE size,
     free |-> IF bad \in {"size", "free"} THEN 0 ELSE free]

\* The entries of a vgs report as decoded.
VgEntries ==
    {vgUnmarshalJSON(n, VgSize, f, "none") : n \in VgNames, f \in {0, ExtentSize}}

\* The entry at which a decode stopped.
VgBadEntries ==
    {vgUnmarshalJSON(n, VgSize, ExtentSize, b) : n \in VgNames, b \in {"size", "free"}}

VgEntrySeqs(n) == UNION {[1..k -> VgEntries] : k \in 0..n}

\* What callLVMInto leaves its caller with for a vgs command: the error it
\* returns and the entries the decoder has put into res by then.  A
\* subprocess that was not started, an empty stdout and a stdout that is no
\* JSON leave res empty; an entry whose UnmarshalJSON fails ends the decode
\* with the entries before it, and itself, in res.
VgResults ==
    [err : {Nil}, resVG : VgEntrySeqs(MaxRows)]
    \cup [err : {ErrExec, ErrEOF, ErrSyntax}, resVG : {<<>>}]
    \cup {[err |-> ErrParseUint, resVG |-> Append(s, b)] :
             s \in VgEntrySeqs(MaxRows - 1), b \in VgBadEntries}

getVGReportOf(name, c, resVG) ==
    LET hit == SelectSeq(resVG, LAMBDA v : v.name = name) IN
    IF Len(hit) > 0 THEN [vg |-> <<hit[1]>>, err |-> Nil]
    ELSE IF c.err # Nil THEN [vg |-> <<>>, err |-> c.err]
    ELSE [vg |-> <<>>, err |-> ErrNotFound]

NoVgCall == [op |-> "none", name |-> "", err |-> Nil, resVG |-> <<>>,
             find |-> [vg |-> <<>>, err |-> Nil],
             report |-> [vg |-> <<>>, err |-> Nil]]

\* Both lookups applied to one command result.
VgLookupStep(name, res, f, g) ==
    vgCall' = [op |-> "lookup", name |-> name, err |-> res.err,
               resVG |-> res.resVG,
               find |-> [vg |-> IF f.vg = <<>> THEN <<>> ELSE <<f.vg[1].state>>,
                         err |-> f.err],
               report |-> g]

DoVgLookup(name, res) ==
    VgLookupStep(name, res,
                 FindVolumeGroupOf(name, [err |-> res.err, panics |-> FALSE], res.resVG),
                 getVGReportOf(name, [err |-> res.err, panics |-> FALSE], res.resVG))

(***************************************************************************)
(* Methods of one LogicalVolume, VolumeGroup or ThinPool value and the       *)
(* argument vectors they hand to callLVM (lvm.go).  Strings are Go strings;  *)
(* a path is kept as its directory and its base name.                       *)
(***************************************************************************)
MaxTags == 2       \* most tags in one call

\* fullName(name, vg): "<vg>/<name>"
fullName(name, vgName) == vgName \o "/" \o name

\* fmt.Sprintf("%vb", size)
SizeArg(size) == ToString(size) \o "b"

\* A path as path.Dir and path.Base split it: Dir("") is ".".
mkPath(dir, base) == [dir |-> dir, base |-> base]
EmptyPath == mkPath(".", "")
PathString(p) == IF p.dir = "." THEN p.base ELSE p.dir \o "/" \o p.base
pathDir(p) == p.dir
\* path.Join(dir, name)
pathJoin(dir, name) == mkPath(dir, name)

\* newLogicalVolume
newLogicalVolume(name, path, vgName, size, origin, pool, major, minor, tags) ==
    [fullname |-> fullName(name, vgName), name |-> name, path |-> path,
     vg |-> vgName, size |-> size, origin |-> origin, pool |-> pool,
     devMajor |-> major, devMinor |-> minor, tags |-> tags]

\* l.IsThin(): l.pool != nil
IsThin(l) == l.pool # ""

\* "--addtag", tag for each tag, in order.
TagArgs(tags) ==
    [i \in 1..(2 * Len(tags)) |->
        IF i % 2 = 1 THEN "--addtag" ELSE tags[i \div 2]]

\* Stripe arguments that give -I whenever a stripe size is set.
StripeArgsAlways(stripe, stripeSize) ==
    (IF stripe # 0 THEN <<"-i", ToString(stripe)>> ELSE <<>>)
    \o (IF stripeSize # "" THEN <<"-I", stripeSize>> ELSE <<>>)

\* "-i", stripe when stripe != 0, then "-I", stripeSize when that is set.
StripeArgs(stripe, stripeSize) ==
    IF stripe # 0
    THEN <<"-i", ToString(stripe)>>
         \o (IF stripeSize # "" THEN <<"-I", stripeSize>> ELSE <<>>)
    ELSE <<>>

\* vg.CreateVolume: the arguments of lvcreate.
CreateVolumeArgs(vgName, name, size, tags, stripe, stripeSize, lvcreateOptions) ==
    <<"lvcreate", "-n", name, "-L", SizeArg(size), "-W", "y", "-y">>
    \o TagArgs(tags) \o StripeArgs(stripe, stripeSize) \o lvcreateOptions
    \o <<vgName>>

\* Thin lvcreate arguments that give the size as -L.
ThinCreateVolumeArgsL(poolFullName, name, size, tags, stripe, stripeSize, lvcreateOptions) ==
    <<"lvcreate", "-T", poolFullName, "-n", name, "-L", SizeArg(size), "-W", "y", "-y">>
    \o TagArgs(tags) \o StripeArgs(stripe, stripeSize) \o lvcreateOptions

\* pool.CreateVolume: the arguments of lvcreate.
ThinCreateVolumeArgs(poolFullName, name, size, tags, stripe, stripeSize, lvcreateOptions) ==
    <<"lvcreate", "-T", poolFullName, "-n", name, "-V", SizeArg(size), "-W", "y", "-y">>
    \o TagArgs(tags) \o StripeArgs(stripe, stripeSize) \o lvcreateOptions

\* What a method that ends in "return callLVM(ctx, args...)" gives: the
\* error, the one command issued, whether LVM carried it out.
RunLVM(c, args, fault) ==
    [err |-> IF c.panics THEN Panic ELSE c.err, argv |-> <<args>>,
     lvmOk |-> fault = "none"]

\* A method that returns an error before any command.
Refused(err) == [err |-> err, argv |-> <<>>, lvmOk |-> FALSE]

ErrNotThin == "cannot take snapshot of non-thin volume"
ErrUnknownAccess == "unknown access"

\* ThinSnapshot without the IsThin test.
ThinSnapshotAny(impl, l, name, tags, fault) ==
    RunLVM(callLVM(impl, Outcome(fault, FALSE)),
           <<"lvcreate", "-s", "-k", "n", "-n", name, l.fullname>> \o TagArgs(tags),
           fault)

\* l.ThinSnapshot(name, tags)
ThinSnapshot(impl, l, name, tags, fault) ==
    IF ~IsThin(l) THEN Refused(ErrNotThin)
    ELSE RunLVM(callLVM(impl, Outcome(fault, FALSE)),
                <<"lvcreate", "-s", "-k", "n", "-n", name, l.fullname>>
                    \o TagArgs(tags),
                fault)

\* l.Activate(access)
Activate(impl, l, access, fault) ==
    CASE access = "ro" ->
           RunLVM(callLVM(impl, Outcome(fault, FALSE)),
                  <<"lvchange", "-p", "r", PathString(l.path)>>, fault)
      [] access = "rw" ->
           RunLVM(callLVM(impl, Outcome(fault, FALSE)),
                  <<"lvchange", "-k", "n", "-a", "y", PathString(l.path)>>, fault)
      [] OTHER -> Refused(ErrUnknownAccess)

\* The LogicalVolume after a Rename whose callLVM returned r.
RenameOf(l, name, r) ==
    IF r.err # Nil THEN l
    ELSE [l EXCEPT !.fullname = fullName(name, l.vg), !.name = name,
                   !.path = pathJoin(pathDir(l.path), name)]

\* l.Rename(name): lvrename <vg> <old> <new>, then the fields.
Rename(impl, l, name, fault) ==
    RunLVM(callLVM(impl, Outcome(fault, FALSE)),
           <<"lvrename", l.vg, l.name, name>>, fault)

\* Tag lists: the first k of these names.
TagNames == <<"t2", "t1", "t3">>
TagSeqs == {[i \in 1..k |-> TagNames[i]] : k \in 0..MaxTags}

\* The LogicalVolume values a caller may hold: a thin and a thick volume,
\* a thin and a thick snapshot of it, and a thin volume that has no path.
NoLv == newLogicalVolume("", EmptyPath, "", 0, "", "", 0, 0, <<>>)
LvValues ==
    {newLogicalVolume("a", mkPath("/dev/vg0", "a"), "vg0", ExtentSize, "", pl, 253, 1, tg) :
        pl \in {"", "p"}, tg \in {<<>>, <<"t1">>}}
    \cup {newLogicalVolume("s", mkPath("/dev/vg0", "s"), "vg0", ExtentSize, "a", pl, 253, 2, <<>>) :
        pl \in {"", "p"}}
    \cup {newLogicalVolume("a", EmptyPath, "vg0", ExtentSize, "", "p", 0, 0, <<>>)}

\* The last ThinSnapshot that returned success, for the call after it.
NoPrev == [op |-> "none", name |-> "", source |-> "", tags |-> <<>>, argv |-> <<>>]
Summary(call) ==
    IF call.op = "ThinSnapshot" /\ call.err = Nil
    THEN [op |-> call.op, name |-> call.name, source |-> call.before.fullname,
          tags |-> call.tags, argv |-> call.argv]
    ELSE NoPrev
PrevOf(call) == IF call.op = "obtain" THEN call.prev ELSE Summary(call)

mkLvCall(opName, l, before, name, access, size, tags, stripe, stripeSize, opts, r, prev) ==
    [op |-> opName, lv |-> l, before |-> before, name |-> name,
     access |-> access, size |-> size, tags |-> tags, stripe |-> stripe,
     stripeSize |-> stripeSize, opts |-> opts, err |-> r.err, argv |-> r.argv,
     lvmOk |-> r.lvmOk, prev |-> prev]

NoLvCall ==
    mkLvCall("none", NoLv, NoLv, "", "", 0, <<>>, 0, "", <<>>, Refused(Nil), NoPrev)

\* The caller obtains a LogicalVolume value from a lookup.
LvObtain(l) ==
    lvCall' = mkLvCall("obtain", l, l, "", "", 0, <<>>, 0, "", <<>>, Refused(Nil),
                       PrevOf(lvCall))

HoldsLv == lvCall.op \in {"obtain", "ThinSnapshot", "Activate", "Rename"}
                /\ lvCall.err # Panic

ThinSnapshotStep(name, tags, r) ==
    lvCall' = mkLvCall("ThinSnapshot", lvCall.lv, lvCall.lv, name, "", 0, tags,
                       0, "", <<>>, r, PrevOf(lvCall))

DoThinSnapshot(name, tags, fault) ==
    /\ HoldsLv
    /\ ThinSnapshotStep(name, tags, ThinSnapshot(cmdImpl, lvCall.lv, name, tags, fault))

ActivateStep(access, r) ==
    lvCall' = mkLvCall("Activate", lvCall.lv, lvCall.lv, "", access, 0, <<>>,
                       0, "", <<>>, r, PrevOf(lvCall))

DoActivate(access, fault) ==
    /\ HoldsLv
    /\ ActivateStep(access, Activate(cmdImpl, lvCall.lv, access, fault))

RenameStep(name, r) ==
    lvCall' = mkLvCall("Rename", RenameOf(lvCall.lv, name, r), lvCall.lv, name, "",
                       0, <<>>, 0, "", <<>>, r, PrevOf(lvCall))

DoRename(name, fault) ==
    /\ HoldsLv
    /\ RenameStep(name, Rename(cmdImpl, lvCall.lv, name, fault))

\* vg.CreateVolume on the volume group vgName.
DoVgCreateVolume(vgName, name, size, tags, stripe, stripeSize, opts, fault) ==
    lvCall' = mkLvCall("CreateVolume", NoLv, NoLv, name, "", size, tags, stripe,
                       stripeSize, opts,
                       RunLVM(callLVM(cmdImpl, Outcome(fault, FALSE)),
                              CreateVolumeArgs(vgName, name, size, tags, stripe,
                                               stripeSize, opts), fault),
                       NoPrev)

\* pool.CreateVolume on the thin pool whose t.FullName() is poolFullName.
DoPoolCreateVolume(poolFullName, name, size, tags, stripe, stripeSize, opts, fault) ==
    lvCall' = mkLvCall("PoolCreateVolume", NoLv, NoLv, name, "", size, tags, stripe,
                       stripeSize, opts,
                       RunLVM(callLVM(cmdImpl, Outcome(fault, FALSE)),
                              ThinCreateVolumeArgs(poolFullName, name, size, tags,
                                                   stripe, stripeSize, opts), fault),
                       NoPrev)

(***************************************************************************)
(* lv_attr (internal/lvmd/command/lvm_lv_attr.go).  A string is the         *)
(* sequence of its bytes, each an ASCII character.                          *)
(***************************************************************************)
VolumeTypeRAID == "r"
VolumeTypeRAIDNoInitialSync == "R"
VolumeTypeThinVolume == "V"
VolumeTypeThinPool == "t"
VolumeTypes ==
    {"m", "M", "o", "O", VolumeTypeRAID, VolumeTypeRAIDNoInitialSync, "s", "S",
     "p", "v", "i", "I", "l", "c", VolumeTypeThinVolume, VolumeTypeThinPool,
     "T", "e", "-"}

StateActive == "a"
StateSuspended == "s"
StateInvalidSnapshot == "I"
StateSuspendedSnapshot == "S"
StateSnapshotMergeFailed == "m"
StateSuspendedSnapshotMergeFailed == "M"
StateMappedDevicePresentWithoutTables == "d"
StateMappedDevicePresentWithInactiveTables == "i"
StateNone == "-"
StateHistorical == "h"
StateThinPoolCheckNeeded == "c"
StateSuspendedThinPoolCheckNeeded == "C"
StateUnknown == "X"
States ==
    {StateActive, StateSuspended, StateInvalidSnapshot, StateSuspendedSnapshot,
     StateSnapshotMergeFailed, StateSuspendedSnapshotMergeFailed,
     StateMappedDevicePresentWithoutTables,
     StateMappedDevicePresentWithInactiveTables, StateNone, StateHistorical,
     StateThinPoolCheckNeeded, StateSuspendedThinPoolCheckNeeded, StateUnknown}

OpenTrue == "o"
OpenFalse == "-"
OpenUnknown == "X"
Opens == {OpenTrue, OpenFalse, OpenUnknown}

VolumeHealthPartialActivation == "p"
VolumeHealthUnknown == "X"
VolumeHealthMissing == "-"
VolumeHealthRAIDRefreshNeeded == "r"
VolumeHealthRAIDMismatchesExist == "m"
VolumeHealthRAIDWriteMostly == "w"
VolumeHealthRAIDReshaping == "s"
VolumeHealthRAIDReshapeRemoved == "R"
VolumeHealthThinFailed == "F"
VolumeHealthThinPoolOutOfDataSpace == "D"
VolumeHealthThinPoolMetadataReadOnly == "M"
VolumeHealthWriteCacheError == "E"
VolumeHealths ==
    {VolumeHealthPartialActivation, VolumeHealthUnknown, VolumeHealthMissing,
     VolumeHealthRAIDRefreshNeeded, VolumeHealthRAIDMismatchesExist,
     VolumeHealthRAIDWriteMostly, VolumeHealthRAIDReshaping,
     VolumeHealthRAIDReshapeRemoved, VolumeHealthThinFailed,
     VolumeHealthThinPoolOutOfDataSpace, VolumeHealthThinPoolMetadataReadOnly,
     VolumeHealthWriteCacheError}

\* The LvAttr struct.
mkLvAttr(vt, pm, al, mi, st, op_, ot, ze, vh) ==
    [VolumeType |-> vt, Permissions |-> pm, AllocationPolicy |-> al,
     Minor |-> mi, State |-> st, Open |-> op_, OpenTarget |-> ot, Zero |-> ze,
     VolumeHealth |-> vh]

\* LvAttr{}: every field the zero rune.
ZeroRune == "\\x00"
ZeroLvAttr ==
    mkLvAttr(ZeroRune, ZeroRune, ZeroRune, ZeroRune, ZeroRune, ZeroRune,
             ZeroRune, ZeroRune, ZeroRune)

ErrInvalidLength == "is an invalid length lv_attr"
AttrLen == 10

\* ParsedLvAttr that takes any string long enough for the nine fields.
ParsedLvAttrLoose(raw) ==
    IF Len(raw) < 9 THEN [attr |-> ZeroLvAttr, err |-> ErrInvalidLength]
    ELSE [attr |-> mkLvAttr(raw[1], raw[2], raw[3], raw[4], raw[5], raw[6],
                            raw[7], raw[8], raw[9]),
          err |-> Nil]

\* ParsedLvAttr(raw)
ParsedLvAttr(raw) ==
    IF Len(raw) # AttrLen THEN [attr |-> ZeroLvAttr, err |-> ErrInvalidLength]
    ELSE [attr |-> mkLvAttr(raw[1], raw[2], raw[3], raw[4], raw[5], raw[6],
                            raw[7], raw[8], raw[9]),
          err |-> Nil]

\* l.String(): fmt.Sprintf of nine %c verbs.
String(l) ==
    <<l.VolumeType, l.Permissions, l.AllocationPolicy, l.Minor, l.State,
      l.Open, l.OpenTarget, l.Zero, l.VolumeHealth>>

ErrPartialActivation == "found partial activation of physical volumes"
ErrUnknownHealth == "unknown volume health reported"
ErrWriteCache == "write cache error"
ErrThinPoolFailed == "thin pool encounters serious failures"
ErrThinPoolOutOfDataSpace == "thin pool is out of data space"
ErrThinPoolMetadataReadOnly == "metadata read only"
ErrThinVolumeFailed == "the underlying thin pool entered a failed state"
ErrRAIDRefreshNeeded == "RAID volume requires a refresh"
ErrRAIDMismatchesExist == "RAID volume has portions of the array that are not coherent"
ErrRAIDReshaping == "RAID volume is currently reshaping"
ErrRAIDReshapeRemoved == "RAID volume signifies freed raid images after reshaping"
ErrRAIDWriteMostly == "RAID volume is marked as write-mostly"
ErrSuspended == "logical volume is in a suspended state"
ErrInvalidSnapshot == "logical volume is an invalid snapshot"
ErrSnapshotMergeFailed == "snapshot merge failed"
ErrInactiveTables == "mapped device present with inactive tables"
ErrWithoutTables == "mapped device present without tables"
ErrThinPoolCheckNeeded == "a thin pool check is needed"
ErrUnknownState == "unknown volume state"
ErrHistorical == "historical volume state"
ErrOpenUnknown == "logical volume underlying device state is unknown"

\* The three tests on VolumeHealth that open VerifyHealth.
UniversalHealth(l) ==
    IF l.VolumeHealth = VolumeHealthPartialActivation THEN ErrPartialActivation
    ELSE IF l.VolumeHealth = VolumeHealthUnknown THEN ErrUnknownHealth
    ELSE IF l.VolumeHealth = VolumeHealthWriteCacheError THEN ErrWriteCache
    ELSE Nil

\* The switch on VolumeHealth of a thin pool, without the test on the type.
ThinPoolSwitch(l) ==
    IF l.VolumeHealth = VolumeHealthThinFailed THEN ErrThinPoolFailed
    ELSE IF l.VolumeHealth = VolumeHealthThinPoolOutOfDataSpace
         THEN ErrThinPoolOutOfDataSpace
    ELSE IF l.VolumeHealth = VolumeHealthThinPoolMetadataReadOnly
         THEN ErrThinPoolMetadataReadOnly
    ELSE Nil

\* if l.VolumeType == VolumeTypeThinPool { switch l.VolumeHealth ... }
ThinPoolHealth(l) ==
    IF l.VolumeType = VolumeTypeThinPool THEN ThinPoolSwitch(l) ELSE Nil

\* if l.VolumeType == VolumeTypeThinVolume { switch l.VolumeHealth ... }
ThinVolumeHealth(l) ==
    IF l.VolumeType = VolumeTypeThinVolume
       /\ l.VolumeHealth = VolumeHealthThinFailed
    THEN ErrThinVolumeFailed
    ELSE Nil

\* if l.VolumeType == VolumeTypeRAID || ... { switch l.VolumeHealth ... }
RAIDHealth(l) ==
    IF l.VolumeType = VolumeTypeRAID
       \/ l.VolumeType = VolumeTypeRAIDNoInitialSync
    THEN IF l.VolumeHealth = VolumeHealthRAIDRefreshNeeded
         THEN ErrRAIDRefreshNeeded
         ELSE IF l.VolumeHealth = VolumeHealthRAIDMismatchesExist
         THEN ErrRAIDMismatchesExist
         ELSE IF l.VolumeHealth = VolumeHealthRAIDReshaping
         THEN ErrRAIDReshaping
         ELSE IF l.VolumeHealth = VolumeHealthRAIDReshapeRemoved
         THEN ErrRAIDReshapeRemoved
         ELSE IF l.VolumeHealth = VolumeHealthRAIDWriteMostly
         THEN ErrRAIDWriteMostly
         ELSE Nil
    ELSE Nil

\* switch l.State
StateHealth(l) ==
    IF l.State = StateSuspended \/ l.State = StateSuspendedSnapshot
    THEN ErrSuspended
    ELSE IF l.State = StateInvalidSnapshot THEN ErrInvalidSnapshot
    ELSE IF l.State = StateSuspendedSnapshotMergeFailed
            \/ l.State = StateSnapshotMergeFailed
    THEN ErrSnapshotMergeFailed
    ELSE IF l.State = StateMappedDevicePresentWithInactiveTables
    THEN ErrInactiveTables
    ELSE IF l.State = StateMappedDevicePresentWithoutTables
    THEN ErrWithoutTables
    ELSE IF l.State = StateSuspendedThinPoolCheckNeeded
            \/ l.State = StateThinPoolCheckNeeded
    THEN ErrThinPoolCheckNeeded
    ELSE IF l.State = StateUnknown THEN ErrUnknownState
    ELSE IF l.State = StateHistorical THEN ErrHistorical
    ELSE Nil

\* switch l.Open
OpenHealth(l) == IF l.Open = OpenUnknown THEN ErrOpenUnknown ELSE Nil

\* The error of the first statement that returns one, nil when none does.
RECURSIVE FirstError(_)
FirstError(errs) ==
    IF errs = <<>> THEN Nil
    ELSE IF Head(errs) # Nil THEN Head(errs)
    ELSE FirstError(Tail(errs))

\* VerifyHealth with the switch on State moved to the top.
VerifyHealthStateFirst(l) ==
    FirstError(<<StateHealth(l), UniversalHealth(l), ThinPoolHealth(l),
                 ThinVolumeHealth(l), RAIDHealth(l), OpenHealth(l)>>)

\* VerifyHealth with the thin pool switch applied to every volume type.
VerifyHealthAnyType(l) ==
    FirstError(<<UniversalHealth(l), ThinPoolSwitch(l), ThinVolumeHealth(l),
                 RAIDHealth(l), StateHealth(l), OpenHealth(l)>>)

\* l.VerifyHealth()
VerifyHealth(l) ==
    FirstError(<<UniversalHealth(l), ThinPoolHealth(l), ThinVolumeHealth(l),
                 RAIDHealth(l), StateHealth(l), OpenHealth(l)>>)

\* The calls on one lv_attr string: attrCall holds the string, the record
\* and error of ParsedLvAttr, and the result of the method last called.
MaxAttrLen == 11
PermissionsWriteable == "w"
PermissionsReadOnly == "r"
AllocationPolicyInherited == "i"
AllocationPolicyNormal == "n"
MinorTrue == "m"
MinorFalse == "-"
OpenTargetRaid == "r"
OpenTargetSnapshot == "s"
OpenTargetThin == "t"
ZeroTrue == "z"
ZeroFalse == "-"

\* Permissions, AllocationPolicy, Minor, OpenTarget, Zero and the tenth
\* character of the strings tried.
OtherFields ==
    {<<PermissionsWriteable, AllocationPolicyInherited, MinorFalse,
       OpenTargetRaid, ZeroFalse, "-">>,
     <<PermissionsWriteable, AllocationPolicyInherited, MinorFalse,
       OpenTargetThin, ZeroTrue, "-">>,
     <<PermissionsReadOnly, AllocationPolicyNormal, MinorTrue,
       OpenTargetSnapshot, ZeroFalse, "k">>}

\* The strings of length 10 whose first nine characters are codes of the
\* nine types.
WellFormedAttrs ==
    {<<vt, o[1], o[2], o[3], st, op_, o[4], o[5], vh, o[6]>> :
        vt \in VolumeTypes, st \in States, op_ \in Opens,
        vh \in VolumeHealths, o \in OtherFields}

RECURSIVE Dashes(_)
Dashes(n) == IF n = 0 THEN <<>> ELSE <<"-">> \o Dashes(n - 1)

\* Strings of every other length up to MaxAttrLen.
OtherLengthAttrs ==
    LET bases == {<<"R", "w", "i", "-", "a", "-", "r", "-", "-", "-">>,
                  <<"t", "w", "i", "-", "s", "X", "t", "z", "D", "-">>}
    IN {SubSeq(b, 1, k) : b \in bases, k \in 0..(AttrLen - 1)}
       \cup {b \o Dashes(k) : b \in bases, k \in 1..(MaxAttrLen - AttrLen)}

AttrInputs == WellFormedAttrs \cup OtherLengthAttrs

mkAttrCall(op_, raw, attr, err, str, health) ==
    [op |-> op_, raw |-> raw, attr |-> attr, err |-> err, str |-> str,
     health |-> health]

NoAttrCall == mkAttrCall("none", <<>>, ZeroLvAttr, Nil, <<>>, Nil)

AttrInit ==
    attrCall \in {mkAttrCall("input", raw, ZeroLvAttr, Nil, <<>>, Nil) :
                    raw \in AttrInputs}

DoParsedLvAttr ==
    /\ attrCall.op = "input"
    /\ LET r == ParsedLvAttr(attrCall.raw)
       IN attrCall' = [attrCall EXCEPT !.op = "ParsedLvAttr",
                                       !.attr = r.attr, !.err = r.err]

DoString ==
    /\ attrCall.op = "ParsedLvAttr"
    /\ attrCall.err = Nil
    /\ attrCall' = [attrCall EXCEPT !.op = "String",
                                    !.str = String(attrCall.attr)]

DoVerifyHealth ==
    /\ attrCall.op = "ParsedLvAttr"
    /\ attrCall.err = Nil
    /\ attrCall' = [attrCall EXCEPT !.op = "VerifyHealth",
                                    !.health = VerifyHealth(attrCall.attr)]

(***************************************************************************)
(* Free space of a thin pool (lvm.go, ThinPool.ListVolumes and              *)
(* ThinPool.Free) and the free-bytes query of the VG service.  Sizes on the *)
(* host stay far below 2^64, so uint64 sums are sums of naturals.           *)
(***************************************************************************)
\* ThinPool.ListVolumes without the test on volume.pool.
ThinPoolListVolumesUnfiltered(t, r) ==
    [vols |-> IF r.err # Nil THEN <<>> ELSE r.vols,
     err |-> r.err, cmds |-> r.cmds, adapterErr |-> r.adapterErr,
     panics |-> r.panics]

\* ThinPool.ListVolumes after t.vg.ListVolumes(ctx, "") returned r: the
\* volumes whose pool is t.Name(), or r's error.
ThinPoolListVolumesOf(t, r) ==
    [vols |-> IF r.err # Nil THEN <<>>
              ELSE SelectSeq(r.vols, LAMBDA volume :
                                volume.pool # "" /\ volume.pool = t.state.name),
     err |-> r.err, cmds |-> r.cmds, adapterErr |-> r.adapterErr,
     panics |-> r.panics]

\* t.ListVolumes(ctx)
ThinPoolListVolumes(impl, t, vg, h, fault) ==
    ThinPoolListVolumesOf(t, ListVolumes(impl, vg, "", h, fault))

RECURSIVE SumVolumeSizes(_)
\* for _, l := range lvs { tpu.VirtualBytes += l.size }
SumVolumeSizes(vols) ==
    IF vols = <<>> THEN 0 ELSE Head(vols).size + SumVolumeSizes(Tail(vols))

\* ThinPool.Free that counts no member of the pool.
ThinPoolFreeOfNoMembers(t, r) ==
    [tpu |-> IF r.err # Nil THEN <<>>
             ELSE <<[SizeBytes |-> t.state.size, VirtualBytes |-> 0]>>,
     err |-> r.err, cmds |-> r.cmds, adapterErr |-> r.adapterErr,
     panics |-> r.panics]

\* ThinPool.Free after t.ListVolumes(ctx) returned r.  The two percentages
\* are copied from t.state and take no part in what follows.
ThinPoolFreeOf(t, r) ==
    [tpu |-> IF r.err # Nil THEN <<>>
             ELSE <<[SizeBytes |-> t.state.size,
                     VirtualBytes |-> SumVolumeSizes(r.vols)]>>,
     err |-> r.err, cmds |-> r.cmds, adapterErr |-> r.adapterErr,
     panics |-> r.panics]

\* t.Free(ctx)
ThinPoolFree(impl, t, vg, h, fault) ==
    ThinPoolFreeOf(t, ThinPoolListVolumes(impl, t, vg, h, fault))

\* Overprovision ratios, as numerator and denominator.
Ratios == {<<1, 1>>, <<5, 4>>, <<2, 1>>}

\* A thin device class: its volume group and its thin pool configuration.
mkDeviceClass(vgName, poolName, ratio) ==
    [VolumeGroup |-> vgName, ThinPoolName |-> poolName,
     OverprovisionRatio |-> ratio]

FreeResult(free, err, cmds) == [free |-> free, err |-> err, cmds |-> cmds]

\* floor(ratio * size)
Overprovisioned(ratio, size) == (ratio[1] * size) \div ratio[2]

\* GetFreeBytes of the VG service for a thin device class: it finds the
\* volume group, finds the pool, asks the pool for its usage and returns
\* floor(ratio * size) - VirtualBytes, or 0 when that would be negative.
GetFreeBytes(impl, dc, h, f1, f2, f3) ==
    LET g == FindVolumeGroup(impl, dc.VolumeGroup, h, f1) IN
    IF g.err # Nil THEN FreeResult(0, g.err, g.cmds)
    ELSE LET p == FindPool(impl, g.vg[1], dc.ThinPoolName, h, f2) IN
    IF p.err # Nil THEN FreeResult(0, p.err, g.cmds \o p.cmds)
    ELSE LET u == ThinPoolFree(impl, p.pool[1], g.vg[1], h, f3) IN
    IF u.err # Nil THEN FreeResult(0, u.err, g.cmds \o p.cmds \o u.cmds)
    ELSE LET opb == Overprovisioned(dc.OverprovisionRatio, u.tpu[1].SizeBytes)
             virtual == u.tpu[1].VirtualBytes
         IN FreeResult(IF opb <= virtual THEN 0 ELSE opb - virtual, Nil,
                       g.cmds \o p.cmds \o u.cmds)

\* The host of the free-bytes queries: vg0 with the thin pools p and q,
\* vg1 with a pool p of its own and a thin volume in it.
FreeHost ==
    {mkLv("vg0", "p", 2, "", 0, "", TRUE), mkLv("vg0", "q", 2, "", 0, "", TRUE),
     mkLv("vg1", "p", 2, "", 0, "", TRUE), mkLv("vg1", "a", 2, "", 0, "p", FALSE)}

\* What another actor on the host may make of vg0/a and vg0/b: a thin
\* volume of p, a thin volume of q, or a thick volume.
LvKinds == {"p", "q", ""}
VolumeSizes == {RoundUp(s) : s \in 1..(2 * ExtentSize)}

mkFreeCall(op_, dc, r) ==
    [op |-> op_, dc |-> dc, free |-> r.free, err |-> r.err, cmds |-> r.cmds]

NoFreeCall ==
    mkFreeCall("none", mkDeviceClass("", "", <<1, 1>>),
               FreeResult(0, Nil, <<>>))

\* Another actor creates or replaces a volume of vg0; the answer of the
\* last query is about a host that is no more and is dropped.
HostPut(name, kind, size) ==
    LET h2 == (host \ HostLv(host, "vg0", name))
              \cup {mkLv("vg0", name, size, "", 0, kind, FALSE)}
    IN /\ VgFree(h2, "vg0") >= 0
       /\ host' = h2
       /\ freeCall' = NoFreeCall
       /\ UNCHANGED <<vgVal, vgFrom, lvVal, poolVal, op>>

\* Another actor removes a volume of vg0.
HostRemove(name) ==
    /\ HostLv(host, "vg0", name) # {}
    /\ host' = host \ HostLv(host, "vg0", name)
    /\ freeCall' = NoFreeCall
    /\ UNCHANGED <<vgVal, vgFrom, lvVal, poolVal, op>>

\* One free-bytes query on the host as it is now.
DoGetFreeBytes(dc, f1, f2, f3) ==
    freeCall' = mkFreeCall("GetFreeBytes", dc,
                           GetFreeBytes(cmdImpl, dc, host, f1, f2, f3))

(***************************************************************************)
(* The lvmd services behind NewLocal (lvm.go): the LV service, the VG       *)
(* service's watch stream and the notifier the two share.  The services'    *)
(* own code is what the specification of the daemon says of them; what they *)
(* call in lvm.go is the code above.                                        *)
(***************************************************************************)
MaxMutations == 3   \* most successful mutations in one run
ChanCap == 1        \* buffered ticks a subscriber holds

CodeNotFound == "NotFound"
CodeInternal == "Internal"
CodeResourceExhausted == "ResourceExhausted"
CodeInvalidArgument == "InvalidArgument"

\* The kind a service gives an error of lvm.go.
CodeOf(err) == IF err = ErrNotFound THEN CodeNotFound ELSE CodeInternal

\* vg.Free() with the capacity in place of the free space.
VolumeGroupFreeAsSize(vg) == vg.state.size

\* vg.Free()
VolumeGroupFree(vg) == vg.state.free

\* lvcreate -T vg/pool -n name -V size: refused when the name is taken or
\* the pool does not exist; a thin volume takes no space of the VG.
HostCreateThin(h, vg, pool, name, size) ==
    IF HostLv(h, vg, name) = {} /\ \E l \in HostLv(h, vg, pool) : l.thinPool
    THEN h \cup {mkLv(vg, name, RoundUp(size), "", 0, pool, FALSE)}
    ELSE h

\* pool.CreateVolume(name, size, ...): lvcreate -T <pool> -n <name> -V <size>b
ThinPoolCreateVolume(impl, t, name, size, h, fault) ==
    CreateVolumeOf(callLVM(impl, Outcome(fault, FALSE)), h,
                   IF fault = "none"
                   THEN HostCreateThin(h, t.state.vgName, t.state.name, name, size)
                   ELSE h)

\* lvremove -f path
HostRemoveLv(h, vg, name) == h \ HostLv(h, vg, name)

\* lv.Remove(): lvremove -f <path>
LogicalVolumeRemove(impl, l, h, fault) ==
    CreateVolumeOf(callLVM(impl, Outcome(fault, FALSE)), h,
                   IF fault = "none"
                   THEN HostRemoveLv(h, l.fullname[1], l.fullname[2]) ELSE h)

\* The device classes of the daemon: a thick one on vg0 and a thin one on
\* the pool vg0/p.
ThickClass == mkDeviceClass("vg0", "", <<1, 1>>)
ThinClass == mkDeviceClass("vg0", "p", <<5, 4>>)
DeviceClasses == {ThickClass, ThinClass}
IsThinClass(dc) == dc.ThinPoolName # ""

\* The free bytes of a device class on the volume group found: vg.Free()
\* for a thick class, the overprovision formula for a thin one.
AvailableFree(impl, dc, vg, h, f1, f2) ==
    IF ~IsThinClass(dc)
    THEN [free |-> VolumeGroupFree(vg), err |-> Nil, pool |-> <<>>, cmds |-> <<>>]
    ELSE LET p == FindPool(impl, vg, dc.ThinPoolName, h, f1) IN
         IF p.err # Nil
         THEN [free |-> 0, err |-> p.err, pool |-> <<>>, cmds |-> p.cmds]
         ELSE LET u == ThinPoolFree(impl, p.pool[1], vg, h, f2) IN
              IF u.err # Nil
              THEN [free |-> 0, err |-> u.err, pool |-> <<>>,
                    cmds |-> p.cmds \o u.cmds]
              ELSE LET opb == Overprovisioned(dc.OverprovisionRatio,
                                              u.tpu[1].SizeBytes)
                       virtual == u.tpu[1].VirtualBytes
                   IN [free |-> IF opb <= virtual THEN 0 ELSE opb - virtual,
                       err |-> Nil, pool |-> p.pool, cmds |-> p.cmds \o u.cmds]

\* What an RPC of the LV service gives: its status, the host it leaves, the
\* commands it ran and whether it posted a tick.
LvResult(err, h, cmds, tick) == [err |-> err, host |-> h, cmds |-> cmds, tick |-> tick]

\* CreateLV steps 5 to 7: the lvcreate of the class, the re-read and the tick.
CreateLVOf(impl, dc, vg, a, name, size, h, f) ==
    LET c == IF IsThinClass(dc)
             THEN ThinPoolCreateVolume(impl, a.pool[1], name, size, h, f[4])
             ELSE CreateVolume(impl, vg, name, size, h, f[4])
    IN IF c.err # Nil THEN LvResult(CodeOf(c.err), c.host, a.cmds \o c.cmds, FALSE)
       ELSE LET v == FindVolume(impl, vg, name, c.host, f[5]) IN
            IF v.err # Nil
            THEN LvResult(CodeOf(v.err), c.host, a.cmds \o c.cmds \o v.cmds, FALSE)
            ELSE LvResult(Nil, c.host, a.cmds \o c.cmds \o v.cmds, TRUE)

\* CreateLV(name, device_class, size): find the volume group, compute the
\* free bytes, ResourceExhausted when free < size, else create, re-read and
\* tick.  f gives the fault of each command in turn.
CreateLV(impl, dc, name, size, h, f) ==
    LET g == FindVolumeGroup(impl, dc.VolumeGroup, h, f[1]) IN
    IF g.err # Nil THEN LvResult(CodeOf(g.err), h, g.cmds, FALSE)
    ELSE LET a == AvailableFree(impl, dc, g.vg[1], h, f[2], f[3]) IN
         IF a.err # Nil THEN LvResult(CodeOf(a.err), h, g.cmds \o a.cmds, FALSE)
         ELSE IF a.free < size
         THEN LvResult(CodeResourceExhausted, h, g.cmds \o a.cmds, FALSE)
         ELSE CreateLVOf(impl, dc, g.vg[1], [a EXCEPT !.cmds = g.cmds \o a.cmds],
                         name, size, h, f)

\* ResizeLV steps 3 to 5: the check against the free bytes, lv.Resize and
\* the tick.
ResizeLVOf(impl, dc, vg, l, size, h, f, cmds) ==
    LET a == AvailableFree(impl, dc, vg, h, f[3], f[3]) IN
    IF a.err # Nil THEN LvResult(CodeOf(a.err), h, cmds \o a.cmds, FALSE)
    ELSE IF a.free < size - l.size
    THEN LvResult(CodeResourceExhausted, h, cmds \o a.cmds, FALSE)
    ELSE LET r == LogicalVolumeResize(impl, l, vg, size, h, f[4], f[5]) IN
         IF r.err # Nil
         THEN LvResult(CodeOf(r.err), r.host, cmds \o a.cmds \o r.cmds, FALSE)
         ELSE LvResult(Nil, r.host, cmds \o a.cmds \o r.cmds, TRUE)

\* ResizeLV(name, device_class, new_size): find the volume (an error when
\* there is none), InvalidArgument for a shrink, then as ResizeLVOf.
ResizeLV(impl, dc, name, size, h, f) ==
    LET g == FindVolumeGroup(impl, dc.VolumeGroup, h, f[1]) IN
    IF g.err # Nil THEN LvResult(CodeOf(g.err), h, g.cmds, FALSE)
    ELSE LET v == FindVolume(impl, g.vg[1], name, h, f[2]) IN
         IF v.err # Nil THEN LvResult(CodeOf(v.err), h, g.cmds \o v.cmds, FALSE)
         ELSE IF size < v.vol[1].size
         THEN LvResult(CodeInvalidArgument, h, g.cmds \o v.cmds, FALSE)
         ELSE ResizeLVOf(impl, dc, g.vg[1], v.vol[1], size, h, f,
                         g.cmds \o v.cmds)

\* RemoveLV(name, device_class): find the volume, lv.Remove(), tick; a
\* volume that is not there is a success without a tick.
RemoveLV(impl, dc, name, h, f) ==
    LET g == FindVolumeGroup(impl, dc.VolumeGroup, h, f[1]) IN
    IF g.err # Nil THEN LvResult(CodeOf(g.err), h, g.cmds, FALSE)
    ELSE LET v == FindVolume(impl, g.vg[1], name, h, f[2]) IN
         IF v.err = ErrNotFound THEN LvResult(Nil, h, g.cmds \o v.cmds, FALSE)
         ELSE IF v.err # Nil
         THEN LvResult(CodeOf(v.err), h, g.cmds \o v.cmds, FALSE)
         ELSE LET r == LogicalVolumeRemove(impl, v.vol[1], h, f[4]) IN
              IF r.err # Nil
              THEN LvResult(CodeOf(r.err), r.host, g.cmds \o v.cmds \o r.cmds, FALSE)
              ELSE LvResult(Nil, r.host, g.cmds \o v.cmds \o r.cmds, TRUE)

\* An interface value that was never assigned.
NilInterface == "nil"

\* The localCaller NewLocal builds: its two server fields are set, its two
\* client fields are not.
localCaller ==
    [lvServiceServer |-> "lvService", vgServiceServer |-> "vgService",
     lvServiceClient |-> NilInterface, vgServiceClient |-> NilInterface]

\* NewLocal with a notifier of its own for the LV service.
NewLocalOwnNotifier ==
    [lvNotifier |-> "n1", vgNotifier |-> "n0",
     lvServiceServer |-> localCaller.lvServiceServer,
     lvServiceClient |-> localCaller.lvServiceClient,
     vgServiceServer |-> localCaller.vgServiceServer,
     vgServiceClient |-> localCaller.vgServiceClient]

\* NewLocal: the notifier NewVGService returns is the one NewLVService gets;
\* the four values returned are the four fields of the localCaller.
NewLocal ==
    [lvNotifier |-> "n0", vgNotifier |-> "n0",
     lvServiceServer |-> localCaller.lvServiceServer,
     lvServiceClient |-> localCaller.lvServiceClient,
     vgServiceServer |-> localCaller.vgServiceServer,
     vgServiceClient |-> localCaller.vgServiceClient]

\* A tick put into a subscriber's channel: the oldest one is dropped when
\* the channel is full.
Push(chan, tick) ==
    IF Len(chan) >= ChanCap THEN Tail(chan) \o <<tick>> ELSE Append(chan, tick)

\* notify() of the LV service: a tick for the subscribers of its notifier.
Notify(d, tick) ==
    IF d.subscribed /\ d.lvNotifier = d.vgNotifier THEN Push(d.chan, tick)
    ELSE d.chan

\* What a watch message carries: the free bytes of each device class, as
\* the VG service computes them when it sends.
WatchMessage(impl, h) ==
    LET g == FindVolumeGroup(impl, "vg0", h, "none")
    IN [thick |-> VolumeGroupFree(g.vg[1]),
        thin |-> GetFreeBytes(impl, ThinClass, h, "none", "none", "none").free]

\* The faults of the commands of one RPC: at most one of them fails, by
\* exit 5, or the first one cannot be started.
FaultSeqs ==
    {[i \in 1..5 |-> IF i = k THEN "exit5" ELSE "none"] : k \in 0..5}
    \cup {[i \in 1..5 |-> IF i = 1 THEN "startFail" ELSE "none"]}

LvdSizes == {1, MaxSize, VgSize - 1}

NoMessage == [kind |-> "none", tick |-> 0, thick |-> 0, thin |-> 0]
Message(kind, tick, m) ==
    [kind |-> kind, tick |-> tick, thick |-> m.thick, thin |-> m.thin]

\* The daemon after NewLocal: nothing called, nobody subscribed.
LvdInit ==
    lvd = [lvNotifier |-> NewLocal.lvNotifier, vgNotifier |-> NewLocal.vgNotifier,
           flip |-> FALSE, op |-> "none", dc |-> ThickClass, name |-> "",
           size |-> 0, faulty |-> FALSE, err |-> Nil, cmds |-> <<>>,
           posted |-> 0, stale |-> FALSE, subscribed |-> FALSE, chan |-> <<>>,
           last |-> NoMessage]

\* One RPC of the LV service that returned r.
LvdStep(opName, dc, name, size, f, r) ==
    /\ lvd.posted < MaxMutations
    /\ host' = r.host
    /\ lvd' = [lvd EXCEPT
                 !.flip = ~@, !.op = opName, !.dc = dc, !.name = name,
                 !.size = size, !.faulty = \E i \in 1..5 : f[i] # "none",
                 !.err = r.err, !.cmds = r.cmds,
                 !.posted = IF r.tick THEN @ + 1 ELSE @,
                 !.stale = IF r.tick THEN FALSE
                           ELSE IF r.host # host THEN TRUE ELSE @,
                 !.chan = IF r.tick THEN Notify(lvd, lvd.posted + 1) ELSE @]
    /\ UNCHANGED <<vgVal, vgFrom, lvVal, poolVal, op>>

DoCreateLV(dc, name, size, f) ==
    LvdStep("CreateLV", dc, name, size, f,
            CreateLV(cmdImpl, dc, name, size, host, f))

DoResizeLV(dc, name, size, f) ==
    LvdStep("ResizeLV", dc, name, size, f,
            ResizeLV(cmdImpl, dc, name, size, host, f))

DoRemoveLV(dc, name, f) ==
    LvdStep("RemoveLV", dc, name, 0, f, RemoveLV(cmdImpl, dc, name, host, f))

\* CreateLV as the threads of two RPCs run it: the commands of the free-space
\* check are one step, the lvcreate with the re-read and the tick another;
\* LVM's lock on the volume group makes each command atomic and the daemon
\* holds no lock between them.
Callers == {"r1", "r2"}
NameOf(c) == IF c = "r1" THEN "a" ELSE "b"
NoFaults == [i \in 1..5 |-> "none"]
IdleCall ==
    [pc |-> "idle", size |-> 0, seen |-> {}, vg |-> <<>>, free |-> <<>>,
     err |-> Nil, tick |-> FALSE]

RpcInit(dc) == rpc = [op |-> "CreateLV", dc |-> dc, calls |-> [c \in Callers |-> IdleCall]]

\* Steps 1 to 3 of CreateLV by caller c.
RpcPreCheck(c, size) ==
    /\ rpc.op = "CreateLV"
    /\ rpc.calls[c].pc = "idle"
    /\ LET g == FindVolumeGroup(cmdImpl, rpc.dc.VolumeGroup, host, "none")
           a == AvailableFree(cmdImpl, rpc.dc, g.vg[1], host, "none", "none")
           done(e) == [IdleCall EXCEPT !.pc = "done", !.size = size,
                                       !.seen = host, !.err = e]
       IN rpc' = [rpc EXCEPT !.calls[c] =
                    IF g.err # Nil THEN done(CodeOf(g.err))
                    ELSE IF a.err # Nil THEN done(CodeOf(a.err))
                    ELSE IF a.free < size THEN done(CodeResourceExhausted)
                    ELSE [IdleCall EXCEPT !.pc = "checked", !.size = size,
                                          !.seen = host, !.vg = g.vg,
                                          !.free = <<a>>]]
    /\ UNCHANGED <<host, vgVal, vgFrom, lvVal, poolVal, op>>

\* Steps 5 to 8 of CreateLV by caller c.
RpcCreate(c) ==
    /\ rpc.op = "CreateLV"
    /\ rpc.calls[c].pc = "checked"
    /\ LET k == rpc.calls[c]
           r == CreateLVOf(cmdImpl, rpc.dc, k.vg[1], k.free[1], NameOf(c),
                           k.size, host, NoFaults)
       IN /\ host' = r.host
          /\ rpc' = [rpc EXCEPT !.calls[c].pc = "done",
                                !.calls[c].err = r.err,
                                !.calls[c].tick = r.tick]
    /\ UNCHANGED <<vgVal, vgFrom, lvVal, poolVal, op>>

\* A method called on a client NewLocal returned: on a nil interface the
\* call panics; a localCaller forwards to its server, whose result r is the
\* call's.
ViaClient(client, r, h) ==
    IF client = NilInterface THEN LvResult(Panic, h, <<>>, FALSE) ELSE r

ClientCreateLV(dc, name, size, f) ==
    LvdStep("client.CreateLV", dc, name, size, f,
            ViaClient(NewLocal.lvServiceClient,
                      CreateLV(cmdImpl, dc, name, size, host, f), host))

ClientResizeLV(dc, name, size, f) ==
    LvdStep("client.ResizeLV", dc, name, size, f,
            ViaClient(NewLocal.lvServiceClient,
                      ResizeLV(cmdImpl, dc, name, size, host, f), host))

ClientRemoveLV(dc, name, f) ==
    LvdStep("client.RemoveLV", dc, name, 0, f,
            ViaClient(NewLocal.lvServiceClient,
                      RemoveLV(cmdImpl, dc, name, host, f), host))

\* Watch: the caller subscribes and is sent one message at once.
WatchSubscribe ==
    /\ ~lvd.subscribed
    /\ lvd' = [lvd EXCEPT !.subscribed = TRUE,
                          !.last = Message("subscribe", lvd.posted,
                                           WatchMessage(cmdImpl, host))]
    /\ UNCHANGED lvmVars

\* Watch: the next tick of the channel is taken and a message sent.
WatchDeliver ==
    /\ lvd.subscribed
    /\ lvd.chan # <<>>
    /\ lvd' = [lvd EXCEPT !.chan = Tail(@),
                          !.last = Message("tick", Head(lvd.chan),
                                           WatchMessage(cmdImpl, host))]
    /\ UNCHANGED lvmVars

(***************************************************************************)
(* The LogicalVolume service of the controller (package k8s): LogicalVolume *)
(* custom resources in the API server, the informer cache in front of it,   *)
(* and CreateVolume, DeleteVolume and GetVolume.                            *)
(***************************************************************************)
CrNames == {"v1", "v2"}
VolumeIDs == {"id1", "id2"}
CodeOK == "OK"
CodeAlreadyExists == "AlreadyExists"
ErrVolumeNotFound == "VolumeID is not found"
ErrMultiple == "multiple LogicalVolume is found for VolumeID"
ErrK8sNotFound == "logicalvolumes.topolvm.io not found"
ErrK8sRead == "the server is currently unable to handle the request"
ErrK8sAlreadyExists == "logicalvolumes.topolvm.io already exists"
ErrK8sConflict == "the object has been modified"
ErrWaitTimeout == "timed out waiting for the condition"
ErrDeadline == "context deadline exceeded"

\* No object of that name.
NoCr == [name |-> ""]

\* A LogicalVolume CR: spec.size, spec.source, spec.accessType and the
\* status the node's controller fills (status.volumeID, status.code);
\* deleting: a delete was accepted and the finalizer is still on it.
\* status.currentSize is a pointer: <<>> while it is nil.
mkCr(name, size, source, accessType, volumeID, code, deleting) ==
    [name |-> name, size |-> size, source |-> source,
     accessType |-> accessType, volumeID |-> volumeID, code |-> code,
     deleting |-> deleting, currentSize |-> <<>>]

\* LogicalVolume.IsCompatibleWith: the same size, source and access type.
IsCompatibleWith(lv, lv2) ==
    /\ lv.name = lv2.name
    /\ lv.size = lv2.size
    /\ lv.source = lv2.source
    /\ lv.accessType = lv2.accessType

\* What a read returns.
ReadResult(err, cr) == [err |-> err, cr |-> cr]

\* retryMissingGetter.Get: the cache, and the API server when the cache has
\* no object of that name.  cf, af: the two reads fail.
RetryMissingGetCacheOnly(cache, api, key, cf, af) ==
    IF cf THEN ReadResult(ErrK8sRead, NoCr)
    ELSE IF cache[key] # NoCr THEN ReadResult(Nil, cache[key])
    ELSE ReadResult(ErrK8sNotFound, NoCr)

RetryMissingGet(cache, api, key, cf, af) ==
    IF cf THEN ReadResult(ErrK8sRead, NoCr)
    ELSE IF cache[key] # NoCr THEN ReadResult(Nil, cache[key])
    ELSE IF af THEN ReadResult(ErrK8sRead, NoCr)
    ELSE IF api[key] # NoCr THEN ReadResult(Nil, api[key])
    ELSE ReadResult(ErrK8sNotFound, NoCr)

\* The objects of a store whose status.volumeID is volumeID.
WithVolumeID(store, volumeID) ==
    {n \in CrNames : store[n] # NoCr /\ store[n].volumeID = volumeID}

\* volumeGetter.Get: the cache's index on status.volumeID first; when it has
\* none, every object of the API server is listed and filtered.
VolumeGetterGetCacheOnly(cache, api, volumeID, cf, af) ==
    LET hit == WithVolumeID(cache, volumeID)
    IN IF cf THEN ReadResult(ErrK8sRead, NoCr)
       ELSE IF Cardinality(hit) > 1 THEN ReadResult(ErrMultiple, NoCr)
       ELSE IF hit # {} THEN ReadResult(Nil, cache[CHOOSE n \in hit : TRUE])
       ELSE ReadResult(ErrVolumeNotFound, NoCr)

VolumeGetterGet(cache, api, volumeID, cf, af) ==
    LET hit == WithVolumeID(cache, volumeID)
        found == WithVolumeID(api, volumeID)
    IN IF cf THEN ReadResult(ErrK8sRead, NoCr)
       ELSE IF Cardinality(hit) > 1 THEN ReadResult(ErrMultiple, NoCr)
       ELSE IF hit # {} THEN ReadResult(Nil, cache[CHOOSE n \in hit : TRUE])
       ELSE IF af THEN ReadResult(ErrK8sRead, NoCr)
       ELSE IF Cardinality(found) > 1 THEN ReadResult(ErrMultiple, NoCr)
       ELSE IF found = {} THEN ReadResult(ErrVolumeNotFound, NoCr)
       ELSE ReadResult(Nil, api[CHOOSE n \in found : TRUE])

\* LogicalVolumeService.GetVolume.
GetVolume(cache, api, volumeID, cf, af) ==
    VolumeGetterGet(cache, api, volumeID, cf, af)

\* client.Writer.Create on the API server.
ApiCreate(api, lv, wf) ==
    IF wf THEN [err |-> ErrK8sRead, api |-> api]
    ELSE IF api[lv.name] # NoCr THEN [err |-> ErrK8sAlreadyExists, api |-> api]
    ELSE [err |-> Nil, api |-> [api EXCEPT ![lv.name] = lv]]

\* client.Writer.Delete on the API server; fin: the object carries a
\* finalizer, so it stays, marked as being deleted, until the node's
\* controller has removed it.
ApiDelete(api, name, wf, fin) ==
    IF wf THEN [err |-> ErrK8sRead, api |-> api]
    ELSE IF api[name] = NoCr THEN [err |-> ErrK8sNotFound, api |-> api]
    ELSE IF fin THEN [err |-> Nil,
                      api |-> [api EXCEPT ![name].deleting = TRUE]]
    ELSE [err |-> Nil, api |-> [api EXCEPT ![name] = NoCr]]

\* The state of the service's one call (the caller holds a lock).
K8sCall(opName, phase, name, id, req, found, created, deleted, polled, ret, err) ==
    [op |-> opName, phase |-> phase, name |-> name, id |-> id, req |-> req,
     found |-> found, created |-> created, deleted |-> deleted,
     polled |-> polled, ret |-> ret, err |-> err]

K8sIdleCall ==
    K8sCall("none", "idle", "", "", NoCr, NoCr, 0, 0, FALSE, "", Nil)

K8sInit ==
    k8s = [api |-> [n \in CrNames |-> NoCr],
           cache |-> [n \in CrNames |-> NoCr],
           call |-> K8sIdleCall]

K8sFree == k8s.call.phase \in {"idle", "done"}

\* The informer delivers the API server's current object of one name.
CacheSync(n) ==
    /\ k8s.cache[n] # k8s.api[n]
    /\ k8s' = [k8s EXCEPT !.cache[n] = k8s.api[n]]

\* The node's controller provisions the volume and reports its ID, or
\* reports a failure code.
NodeSetStatus(n, volumeID, code) ==
    /\ k8s.api[n] # NoCr
    /\ k8s.api[n].volumeID = ""
    /\ k8s.api[n].code = CodeOK
    /\ ~k8s.api[n].deleting
    /\ (volumeID = "") # (code = CodeOK)
    /\ k8s' = [k8s EXCEPT !.api[n].volumeID = volumeID,
                          !.api[n].code = code]

\* The node's controller has removed the LV and takes its finalizer away.
NodeFinalize(n) ==
    /\ k8s.api[n] # NoCr
    /\ k8s.api[n].deleting
    /\ k8s' = [k8s EXCEPT !.api[n] = NoCr]

\* CreateVolume / CreateSnapshot up to waitForStatusUpdate: the lookup by
\* name, then Create or the compatibility check.
CreateOf(opName, lv, cf, af, wf) ==
    LET r == RetryMissingGet(k8s.cache, k8s.api, lv.name, cf, af)
        c == ApiCreate(k8s.api, lv, wf)
        call(phase, found, created, err) ==
            K8sCall(opName, phase, lv.name, "", lv, found, created, 0,
                    FALSE, "", err)
    IN IF r.err # Nil
       THEN IF r.err # ErrK8sNotFound
            THEN [k8s EXCEPT !.call = call("done", NoCr, 0, r.err)]
            ELSE IF c.err # Nil
                 THEN [k8s EXCEPT !.call = call("done", NoCr, 0, c.err)]
                 ELSE [k8s EXCEPT !.api = c.api,
                                  !.call = call("wait", NoCr, 1, Nil)]
       ELSE IF ~IsCompatibleWith(r.cr, lv)
            THEN [k8s EXCEPT !.call = call("done", r.cr, 0, CodeAlreadyExists)]
            ELSE [k8s EXCEPT !.call = call("wait", r.cr, 0, Nil)]

\* CreateVolume: the request has AccessType "rw" when it has a source.
K8sCreateVolume(name, sourceName, requestBytes, cf, af, wf) ==
    /\ K8sFree
    /\ k8s' = CreateOf("CreateVolume",
                       mkCr(name, requestBytes, sourceName,
                            IF sourceName = "" THEN "" ELSE "rw",
                            "", CodeOK, FALSE),
                       cf, af, wf)

K8sCreateSnapshot(sname, sourceVol, accessType, snapSize, cf, af, wf) ==
    /\ K8sFree
    /\ k8s' = CreateOf("CreateSnapshot",
                       mkCr(sname, snapSize, sourceVol, accessType,
                            "", CodeOK, FALSE),
                       cf, af, wf)

\* One round of waitForStatusUpdate's poll.  The function returns
\* (volumeID, <the poll's error>) where the poll's callback assigns
\* volumeID: the compiler of this build evaluates the call before it reads
\* the variable, so the ID the callback stored is what is returned.
WaitForStatusUpdateEarlyRead(cf, af, wf, fin) ==
    LET r == RetryMissingGet(k8s.cache, k8s.api, k8s.call.name, cf, af)
        d == ApiDelete(k8s.api, r.cr.name, wf, fin)
    IN IF r.err # Nil THEN [k8s EXCEPT !.call.polled = TRUE]
       ELSE IF r.cr.volumeID # ""
       THEN [k8s EXCEPT !.call.phase = "done", !.call.ret = ""]
       ELSE IF r.cr.code # CodeOK
       THEN [k8s EXCEPT !.api = d.api, !.call.phase = "done",
                        !.call.deleted = 1, !.call.err = r.cr.code]
       ELSE [k8s EXCEPT !.call.polled = TRUE]

\* waitForStatusUpdate that gives up on a read that fails.
WaitForStatusUpdateFailFast(cf, af, wf, fin) ==
    LET r == RetryMissingGet(k8s.cache, k8s.api, k8s.call.name, cf, af)
        d == ApiDelete(k8s.api, r.cr.name, wf, fin)
    IN IF r.err # Nil
       THEN [k8s EXCEPT !.call.phase = "done", !.call.err = r.err]
       ELSE IF r.cr.volumeID # ""
       THEN [k8s EXCEPT !.call.phase = "done", !.call.ret = r.cr.volumeID]
       ELSE IF r.cr.code # CodeOK
       THEN [k8s EXCEPT !.api = d.api, !.call.phase = "done",
                        !.call.deleted = 1, !.call.err = r.cr.code]
       ELSE [k8s EXCEPT !.call.polled = TRUE]

WaitForStatusUpdate(cf, af, wf, fin) ==
    LET r == RetryMissingGet(k8s.cache, k8s.api, k8s.call.name, cf, af)
        d == ApiDelete(k8s.api, r.cr.name, wf, fin)
    IN IF r.err # Nil THEN [k8s EXCEPT !.call.polled = TRUE]
       ELSE IF r.cr.volumeID # ""
       THEN [k8s EXCEPT !.call.phase = "done", !.call.ret = r.cr.volumeID]
       ELSE IF r.cr.code # CodeOK
       THEN [k8s EXCEPT !.api = d.api, !.call.phase = "done",
                        !.call.deleted = 1, !.call.err = r.cr.code]
       ELSE [k8s EXCEPT !.call.polled = TRUE]

WaitPoll(cf, af, wf, fin) ==
    /\ k8s.call.phase = "wait"
    /\ k8s' = WaitForStatusUpdate(cf, af, wf, fin)

\* The context of the call ends while it polls.
CtxDone ==
    /\ k8s.call.phase \in {"wait", "poll", "update", "expand"}
    /\ k8s' = [k8s EXCEPT !.call.phase = "done", !.call.err = ErrDeadline]

\* DeleteVolume up to its poll: the lookup by volume ID and the delete.
K8sDeleteVolumeOf(volumeID, cf, af, wf, fin) ==
    LET g == GetVolume(k8s.cache, k8s.api, volumeID, cf, af)
        d == ApiDelete(k8s.api, g.cr.name, wf, fin)
        call(phase, name, deleted, err) ==
            K8sCall("DeleteVolume", phase, name, volumeID, NoCr, g.cr, 0,
                    deleted, FALSE, "", err)
    IN IF g.err # Nil
       THEN IF g.err = ErrVolumeNotFound
            THEN [k8s EXCEPT !.call = call("done", "", 0, Nil)]
            ELSE [k8s EXCEPT !.call = call("done", "", 0, g.err)]
       ELSE IF d.err # Nil
       THEN IF d.err = ErrK8sNotFound
            THEN [k8s EXCEPT !.call = call("done", g.cr.name, 1, Nil)]
            ELSE [k8s EXCEPT !.call = call("done", g.cr.name, 1, d.err)]
       ELSE [k8s EXCEPT !.api = d.api,
                        !.call = call("poll", g.cr.name, 1, Nil)]

K8sDeleteVolume(volumeID, cf, af, wf, fin) ==
    /\ K8sFree
    /\ k8s' = K8sDeleteVolumeOf(volumeID, cf, af, wf, fin)

\* One round of DeleteVolume's poll: done when the read says NotFound.
K8sDeleteVolumePollAnyError(cf, af) ==
    LET r == RetryMissingGet(k8s.cache, k8s.api, k8s.call.name, cf, af)
    IN IF r.err # Nil
       THEN [k8s EXCEPT !.call.phase = "done"]
       ELSE [k8s EXCEPT !.call.polled = TRUE]

K8sDeleteVolumePollOf(cf, af) ==
    LET r == RetryMissingGet(k8s.cache, k8s.api, k8s.call.name, cf, af)
    IN IF r.err # Nil
       THEN IF r.err = ErrK8sNotFound
            THEN [k8s EXCEPT !.call.phase = "done"]
            ELSE [k8s EXCEPT !.call.polled = TRUE]
       ELSE [k8s EXCEPT !.call.polled = TRUE]

K8sDeleteVolumePoll(cf, af) ==
    /\ k8s.call.phase = "poll"
    /\ k8s' = K8sDeleteVolumePollOf(cf, af)

\* client.Writer.Update on the API server: refused (a conflict) when the
\* object written is not the server's present one.
ApiUpdate(api, lv, size, wf) ==
    IF wf THEN [err |-> ErrK8sRead, api |-> api]
    ELSE IF api[lv.name] = NoCr THEN [err |-> ErrK8sNotFound, api |-> api]
    ELSE IF api[lv.name] # lv THEN [err |-> ErrK8sConflict, api |-> api]
    ELSE [err |-> Nil, api |-> [api EXCEPT ![lv.name].size = size]]

\* retry.DefaultBackoff.Steps: the attempts updateSpecSize makes.
DefaultBackoffSteps == 4

\* The call record of ExpandVolume: the requested size and the attempts of
\* updateSpecSize so far.
ExpandCall(phase, id, size, found, tries, err) ==
    K8sCall("ExpandVolume", phase, found.name, id, NoCr, found, 0, 0, FALSE,
            "", err) @@ [size |-> size, tries |-> tries]

\* ExpandVolume up to updateSpecSize: the lookup by volume ID.
K8sExpandVolume(volumeID, requestBytes, cf, af) ==
    /\ K8sFree
    /\ LET g == GetVolume(k8s.cache, k8s.api, volumeID, cf, af)
       IN k8s' = [k8s EXCEPT !.call =
                    IF g.err # Nil
                    THEN ExpandCall("done", volumeID, requestBytes, NoCr, 0, g.err)
                    ELSE ExpandCall("update", volumeID, requestBytes, g.cr, 0, Nil)]

\* One attempt of updateSpecSize: the lookup, then the Update; an Update
\* that fails is tried again, a lookup that fails ends the call.
UpdateSpecSizeOf(cf, af, wf) ==
    LET g == GetVolume(k8s.cache, k8s.api, k8s.call.id, cf, af)
        u == ApiUpdate(k8s.api, g.cr, k8s.call.size, wf)
    IN IF g.err # Nil
       THEN [k8s EXCEPT !.call.phase = "done", !.call.err = g.err]
       ELSE IF u.err # Nil
       THEN IF k8s.call.tries + 1 >= DefaultBackoffSteps
            THEN [k8s EXCEPT !.call.phase = "done", !.call.err = ErrWaitTimeout,
                             !.call.tries = @ + 1]
            ELSE [k8s EXCEPT !.call.tries = @ + 1]
       ELSE [k8s EXCEPT !.api = u.api, !.call.phase = "expand",
                        !.call.tries = @ + 1]

UpdateSpecSize(cf, af, wf) ==
    /\ k8s.call.phase = "update"
    /\ k8s' = UpdateSpecSizeOf(cf, af, wf)

\* ExpandVolume's poll that takes a CR of the requested size as expanded.
ExpandPollOfSpecOnly(cf, af) ==
    LET r == RetryMissingGet(k8s.cache, k8s.api, k8s.call.name, cf, af)
    IN IF r.err # Nil THEN [k8s EXCEPT !.call.polled = TRUE]
       ELSE IF r.cr.size # k8s.call.size THEN [k8s EXCEPT !.call.polled = TRUE]
       ELSE IF r.cr.code # CodeOK
       THEN [k8s EXCEPT !.call.phase = "done", !.call.err = r.cr.code]
       ELSE [k8s EXCEPT !.call.phase = "done"]

\* One round of ExpandVolume's poll.
ExpandPollOf(cf, af) ==
    LET r == RetryMissingGet(k8s.cache, k8s.api, k8s.call.name, cf, af)
    IN IF r.err # Nil THEN [k8s EXCEPT !.call.polled = TRUE]
       ELSE IF r.cr.size # k8s.call.size THEN [k8s EXCEPT !.call.polled = TRUE]
       ELSE IF r.cr.code # CodeOK
       THEN [k8s EXCEPT !.call.phase = "done", !.call.err = r.cr.code]
       ELSE IF r.cr.currentSize = <<>> THEN [k8s EXCEPT !.call.polled = TRUE]
       ELSE IF r.cr.currentSize[1] # r.cr.size
       THEN [k8s EXCEPT !.call.polled = TRUE]
       ELSE [k8s EXCEPT !.call.phase = "done"]

ExpandPoll(cf, af) ==
    /\ k8s.call.phase = "expand"
    /\ k8s' = ExpandPollOf(cf, af)

\* The node's controller has resized the LV of a CR to its spec.size, or
\* has failed to.
NodeResize(n, code) ==
    /\ k8s.api[n] # NoCr
    /\ k8s.api[n].volumeID # ""
    /\ k8s.api[n].currentSize # <<k8s.api[n].size>>
    /\ k8s' = [k8s EXCEPT
                 !.api[n].code = code,
                 !.api[n].currentSize =
                     IF code = CodeOK THEN <<k8s.api[n].size>> ELSE @]

\* GetVolume as a call of its own.
DoGetVolume(volumeID, cf, af) ==
    /\ K8sFree
    /\ k8s' = [k8s EXCEPT !.call =
                 LET g == GetVolume(k8s.cache, k8s.api, volumeID, cf, af)
                 IN K8sCall("GetVolume", "done", g.cr.name, volumeID, NoCr,
                            g.cr, 0, 0, FALSE, "", g.err)]

(***************************************************************************)
(* The controller's capacity policy (package driver): the minimum           *)
(* allocation settings and the conversion of a CSI capacity range into a    *)
(* byte size.  A Quantity is a whole number of bytes.                       *)
(***************************************************************************)
MaxCaps == 2

\* A csi.VolumeCapability: its access type is Block, Mount (with a
\* filesystem type) or not set.
CapBlock == [kind |-> "block", fsType |-> ""]
CapMount(fs) == [kind |-> "mount", fsType |-> fs]
CapNone == [kind |-> "none", fsType |-> ""]

\* AllocationSettings, MinimumAllocationSettings and
\* ControllerAllocationSettings.
mkAllocationSettings(filesystem, block) ==
    [Filesystem |-> filesystem, Block |-> block]

mkSettings(default, byDeviceClass) ==
    [Minimum |-> [Default |-> default, ByDeviceClass |-> byDeviceClass]]

\* A Go map without entries, and the value a Go map of quantities gives
\* for a key: the zero Quantity when it has no such key.
EmptyMap == [k \in {} |-> 0]

MapQuantity(m, key) == IF key \in DOMAIN m THEN m[key] ELSE 0

\* The loop of GetMinimumAllocationSize: the first capability that is
\* Block or Mount sets the quantity and ends the loop.
RECURSIVE WalkCapabilitiesNoBreak(_, _, _, _)
WalkCapabilitiesNoBreak(settings, deviceClass, capabilities, quantity) ==
    IF capabilities = <<>> THEN quantity
    ELSE LET capability == Head(capabilities)
             byClass == settings.Minimum.ByDeviceClass
             ok == deviceClass \in DOMAIN byClass
             size == IF ok THEN byClass[deviceClass]
                     ELSE settings.Minimum.Default
             q == IF capability.kind = "block" THEN size.Block
                  ELSE IF capability.kind = "mount"
                       THEN MapQuantity(size.Filesystem, capability.fsType)
                       ELSE quantity
         IN WalkCapabilitiesNoBreak(settings, deviceClass,
                                    Tail(capabilities), q)

RECURSIVE WalkCapabilities(_, _, _, _)
WalkCapabilities(settings, deviceClass, capabilities, quantity) ==
    IF capabilities = <<>> THEN quantity
    ELSE LET capability == Head(capabilities)
             byClass == settings.Minimum.ByDeviceClass
             ok == deviceClass \in DOMAIN byClass
             size == IF ok THEN byClass[deviceClass]
                     ELSE settings.Minimum.Default
         IN IF capability.kind = "block" THEN size.Block
            ELSE IF capability.kind = "mount"
                 THEN MapQuantity(size.Filesystem, capability.fsType)
                 ELSE WalkCapabilities(settings, deviceClass,
                                       Tail(capabilities), quantity)

\* GetMinimumAllocationSize: a negative quantity counts as 0.
GetMinimumAllocationSize(settings, deviceClass, capabilities) ==
    LET quantity == WalkCapabilities(settings, deviceClass, capabilities, 0)
    IN IF quantity < 0 THEN 0 ELSE quantity

\* MinMaxAllocationsFromSettings.
MinMaxAllocationsClamped(settings, required, limit, deviceClass, capabilities) ==
    LET minimumSize ==
            GetMinimumAllocationSize(settings, deviceClass, capabilities)
    IN IF minimumSize > required /\ (limit = 0 \/ minimumSize <= limit)
       THEN [required |-> minimumSize, limit |-> limit]
       ELSE [required |-> required, limit |-> limit]

\* MinMaxAllocationsFromSettings that leaves a negative required as it is.
MinMaxAllocationsNegativeKept(settings, required, limit, deviceClass, capabilities) ==
    LET minimumSize ==
            GetMinimumAllocationSize(settings, deviceClass, capabilities)
    IN IF minimumSize > required /\ required >= 0
       THEN [required |-> minimumSize, limit |-> limit]
       ELSE [required |-> required, limit |-> limit]

MinMaxAllocationsFromSettings(settings, required, limit, deviceClass, capabilities) ==
    LET minimumSize ==
            GetMinimumAllocationSize(settings, deviceClass, capabilities)
    IN IF minimumSize > required
       THEN [required |-> minimumSize, limit |-> limit]
       ELSE [required |-> required, limit |-> limit]

\* topolvm.MinimumSectorSize and topolvm.DefaultSize (1 GiB).
MinimumSectorSize == 512
DefaultSize == 1073741824

ErrNoNegativeRequestBytes == "required capacity must not be negative"
ErrNoNegativeLimitBytes == "capacity limit must not be negative"
ErrRequestedExceedsLimit == "requested capacity exceeds limit capacity"
ErrResultingRequestIsZero == "requested capacity is 0"

\* roundUp and roundDown: the nearest multiple at or above, at or below.
roundUpAlways(size, multiple) == ((size \div multiple) + 1) * multiple

roundUp(size, multiple) == ((size + multiple - 1) \div multiple) * multiple

roundDown(size, multiple) == size - (size % multiple)

ConvertResult(bytes, err) == [bytes |-> bytes, err |-> err]

\* convertRequestCapacityBytes, as Test_convertRequestCapacityBytes fixes
\* it (controller_test.go:13-94): the three checks of the range; for a
\* request of 0 the default size, or the limit rounded down to a sector
\* when the limit is smaller; for any other request the request rounded up
\* to a sector, which must still fit the limit.
convertRequestCapacityBytesLimitFirst(requestBytes, limitBytes) ==
    IF limitBytes < 0 THEN ConvertResult(0, ErrNoNegativeLimitBytes)
    ELSE IF requestBytes < 0 THEN ConvertResult(0, ErrNoNegativeRequestBytes)
    ELSE IF limitBytes # 0 /\ requestBytes > limitBytes
    THEN ConvertResult(0, ErrRequestedExceedsLimit)
    ELSE ConvertResult(roundUp(requestBytes, MinimumSectorSize), Nil)

convertRequestCapacityBytesUnaligned(requestBytes, limitBytes) ==
    IF requestBytes < 0 THEN ConvertResult(0, ErrNoNegativeRequestBytes)
    ELSE IF limitBytes < 0 THEN ConvertResult(0, ErrNoNegativeLimitBytes)
    ELSE IF limitBytes # 0 /\ requestBytes > limitBytes
    THEN ConvertResult(0, ErrRequestedExceedsLimit)
    ELSE IF requestBytes = 0 THEN ConvertResult(DefaultSize, Nil)
    ELSE ConvertResult(requestBytes, Nil)

convertRequestCapacityBytesZeroError(requestBytes, limitBytes) ==
    IF requestBytes < 0 THEN ConvertResult(0, ErrNoNegativeRequestBytes)
    ELSE IF limitBytes < 0 THEN ConvertResult(0, ErrNoNegativeLimitBytes)
    ELSE IF limitBytes # 0 /\ requestBytes > limitBytes
    THEN ConvertResult(0, ErrRequestedExceedsLimit)
    ELSE IF limitBytes > 0
              /\ roundUp(requestBytes, MinimumSectorSize) > limitBytes
    THEN ConvertResult(0, ErrResultingRequestIsZero)
    ELSE ConvertResult(roundUp(requestBytes, MinimumSectorSize), Nil)

convertRequestCapacityBytesAlignUp(requestBytes, limitBytes) ==
    IF requestBytes < 0 THEN ConvertResult(0, ErrNoNegativeRequestBytes)
    ELSE IF limitBytes < 0 THEN ConvertResult(0, ErrNoNegativeLimitBytes)
    ELSE IF limitBytes # 0 /\ requestBytes > limitBytes
    THEN ConvertResult(0, ErrRequestedExceedsLimit)
    ELSE IF requestBytes = 0
    THEN IF limitBytes = 0 \/ limitBytes >= DefaultSize
         THEN ConvertResult(DefaultSize, Nil)
         ELSE IF roundUp(limitBytes, MinimumSectorSize) > limitBytes
              THEN ConvertResult(0, ErrResultingRequestIsZero)
              ELSE ConvertResult(roundUp(limitBytes, MinimumSectorSize), Nil)
    ELSE ConvertResult(roundUp(requestBytes, MinimumSectorSize), Nil)

convertRequestCapacityBytesRawLimit(requestBytes, limitBytes) ==
    IF requestBytes < 0 THEN ConvertResult(0, ErrNoNegativeRequestBytes)
    ELSE IF limitBytes < 0 THEN ConvertResult(0, ErrNoNegativeLimitBytes)
    ELSE IF limitBytes # 0 /\ requestBytes > limitBytes
    THEN ConvertResult(0, ErrRequestedExceedsLimit)
    ELSE IF requestBytes = 0
    THEN IF limitBytes = 0 \/ limitBytes >= DefaultSize
         THEN ConvertResult(DefaultSize, Nil)
         ELSE ConvertResult(limitBytes, Nil)
    ELSE ConvertResult(roundUp(requestBytes, MinimumSectorSize), Nil)

convertRequestCapacityBytes(requestBytes, limitBytes) ==
    IF requestBytes < 0 THEN ConvertResult(0, ErrNoNegativeRequestBytes)
    ELSE IF limitBytes < 0 THEN ConvertResult(0, ErrNoNegativeLimitBytes)
    ELSE IF limitBytes # 0 /\ requestBytes > limitBytes
    THEN ConvertResult(0, ErrRequestedExceedsLimit)
    ELSE IF requestBytes = 0
    THEN IF limitBytes = 0 \/ limitBytes >= DefaultSize
         THEN ConvertResult(DefaultSize, Nil)
         ELSE IF roundDown(limitBytes, MinimumSectorSize) = 0
              THEN ConvertResult(0, ErrResultingRequestIsZero)
              ELSE ConvertResult(roundDown(limitBytes, MinimumSectorSize),
                                 Nil)
    ELSE IF limitBytes > 0
              /\ roundUp(requestBytes, MinimumSectorSize) > limitBytes
         THEN ConvertResult(0, ErrRequestedExceedsLimit)
         ELSE ConvertResult(roundUp(requestBytes, MinimumSectorSize), Nil)

\* The inputs of one call of the driver's functions and what it returned.
NoOut == [required |-> 0, limit |-> 0, quantity |-> 0, bytes |-> 0]

DrvInput(settings, deviceClass, capabilities, required, limit) ==
    [op |-> "none", settings |-> settings, deviceClass |-> deviceClass,
     capabilities |-> capabilities, required |-> required, limit |-> limit,
     out |-> NoOut, err |-> Nil]

\* The settings a configuration can hold: a default with or without an
\* ext4 minimum, and no device class or the class "ssd".
DefaultSettings ==
    {mkAllocationSettings(fs, block) :
        fs \in {EmptyMap, [k \in {"ext4"} |-> 5]}, block \in {-1, 0, 3}}

ClassSettings ==
    {mkAllocationSettings(fs, block) :
        fs \in {EmptyMap, [k \in {"ext4"} |-> 6]}, block \in {-1, 0, 4}}

SettingsInputs ==
    {mkSettings(d, bc) :
        d \in DefaultSettings,
        bc \in {EmptyMap} \cup {[k \in {"ssd"} |-> c] : c \in ClassSettings}}

Capabilities == {CapNone, CapBlock, CapMount("ext4"), CapMount("xfs")}

CapabilityLists ==
    UNION {[1..n -> Capabilities] : n \in 0..MaxCaps}

AllocInit ==
    \E settings \in SettingsInputs, deviceClass \in {"ssd", "hdd"},
       capabilities \in CapabilityLists, required \in {-1, 0, 2, 7},
       limit \in {-1, 0, 3} :
        drv = DrvInput(settings, deviceClass, capabilities, required, limit)

DoGetMinimumAllocationSize ==
    /\ drv' = [drv EXCEPT
                 !.op = "GetMinimumAllocationSize",
                 !.out = [NoOut EXCEPT !.quantity =
                            GetMinimumAllocationSize(drv.settings,
                                drv.deviceClass, drv.capabilities)]]

DoMinMaxAllocationsFromSettings ==
    /\ drv' = [drv EXCEPT
                 !.op = "MinMaxAllocationsFromSettings",
                 !.out = LET r == MinMaxAllocationsFromSettings(
                                      drv.settings, drv.required, drv.limit,
                                      drv.deviceClass, drv.capabilities)
                         IN [NoOut EXCEPT !.required = r.required,
                                          !.limit = r.limit]]

\* The range MinMaxAllocationsFromSettings returned is converted.
DoConvertAllocations ==
    /\ drv.op = "MinMaxAllocationsFromSettings"
    /\ LET r == convertRequestCapacityBytes(drv.out.required, drv.out.limit)
       IN drv' = [drv EXCEPT !.op = "convertAllocations",
                             !.out.bytes = r.bytes, !.err = r.err]

\* The capacity ranges of a request: values around 0, the sector size and
\* the default size.
CapacityValues ==
    {-2, -1, 0, 1, MinimumSectorSize - 1, MinimumSectorSize,
     MinimumSectorSize + 1, 2 * MinimumSectorSize,
     DefaultSize - MinimumSectorSize, DefaultSize - 1, DefaultSize,
     DefaultSize + 1, DefaultSize + MinimumSectorSize}

CapacityInit ==
    \E required \in CapacityValues, limit \in CapacityValues :
        drv = DrvInput(mkSettings(mkAllocationSettings(EmptyMap, 0),
                                  EmptyMap),
                       "", <<>>, required, limit)

DoConvertRequestCapacityBytes ==
    /\ drv' = [drv EXCEPT
                 !.op = "convertRequestCapacityBytes",
                 !.out = [NoOut EXCEPT !.bytes =
                            convertRequestCapacityBytes(drv.required,
                                                        drv.limit).bytes],
                 !.err = convertRequestCapacityBytes(drv.required,
                                                     drv.limit).err]

\* The value a call returned is passed in again as the required size and as
\* the limit.
DoConvertResult ==
    /\ drv.op = "convertRequestCapacityBytes"
    /\ drv.err = Nil
    /\ drv' = [drv EXCEPT
                 !.op = "convertResult",
                 !.required = drv.out.bytes,
                 !.limit = drv.out.bytes,
                 !.out = [NoOut EXCEPT !.bytes =
                            convertRequestCapacityBytes(drv.out.bytes,
                                                        drv.out.bytes).bytes],
                 !.err = convertRequestCapacityBytes(drv.out.bytes,
                                                     drv.out.bytes).err]

(***************************************************************************)
(* The e2e StorageManager (test/e2e/v2): loop devices under a storage       *)
(* limit.  Both methods hold storageMutex from entry to return, so each is  *)
(* one step.  Sizes are counted in GiB.                                     *)
(***************************************************************************)
totalStorageLimit == 30

\* A map that was never made: reads give the zero value, a write panics.
NilMap == "nil map"
NoDevice == [device |-> "", size |-> 0]

MapGet(m, id) ==
    IF m = NilMap THEN NoDevice
    ELSE IF id \in DOMAIN m THEN m[id] ELSE NoDevice

MapIds(m) == IF m = NilMap THEN {} ELSE DOMAIN m

RECURSIVE SumDeviceSizes(_, _)
SumDeviceSizes(m, ids) ==
    IF ids = {} THEN 0
    ELSE LET id == CHOOSE x \in ids : TRUE
         IN m[id].size + SumDeviceSizes(m, ids \ {id})

\* NewStorageManager sets the backing directory and nothing else.
NewStorageManager ==
    [op |-> "new", id |-> "", size |-> 0, err |-> Nil, ret |-> "",
     currentStorageUsage |-> 0, managedLoopDevices |-> NilMap, attached |-> {}]

ErrExceedsLimit == "would exceed storage limit"
ErrBackingFile == "failed to create backing file"
ErrLoopSetup == "failed to setup loop device"
ErrTeardown == "failed to teardown loop device"
ErrRemove == "failed to remove backing file"

LoopOf(id) == "/dev/loop-" \o id

\* Allocate(id, size); fileFault: fallocate fails, loopFault: losetup fails.
Allocate(id, size, fileFault, loopFault) ==
    LET newUsage == sm.currentStorageUsage + size
        fail(e) == [sm EXCEPT !.op = "Allocate", !.id = id, !.size = size,
                              !.err = e, !.ret = ""]
    IN sm' =
         IF newUsage > totalStorageLimit THEN fail(ErrExceedsLimit)
         ELSE IF fileFault THEN fail(ErrBackingFile)
         ELSE IF loopFault THEN fail(ErrLoopSetup)
         ELSE IF sm.managedLoopDevices = NilMap
         THEN [fail(Panic) EXCEPT
                 !.currentStorageUsage = newUsage,
                 !.attached = @ \cup {LoopOf(id)}]
         ELSE [sm EXCEPT
                 !.op = "Allocate", !.id = id, !.size = size, !.err = Nil,
                 !.ret = LoopOf(id),
                 !.currentStorageUsage = newUsage,
                 !.attached = @ \cup {LoopOf(id)},
                 !.managedLoopDevices =
                     [x \in DOMAIN @ \cup {id} |->
                        IF x = id THEN [device |-> LoopOf(id), size |-> size]
                        ELSE @[x]]]

\* Release(id); losetup -d fails on a device that is not attached (the
\* empty name of an id that is not in the map included) and on tdFault;
\* rmFault: os.Remove fails.
Release(id, tdFault, rmFault) ==
    LET d == MapGet(sm.managedLoopDevices, id)
        fail(e) == [sm EXCEPT !.op = "Release", !.id = id, !.size = 0,
                              !.err = e, !.ret = ""]
    IN sm' =
         IF tdFault \/ d.device \notin sm.attached THEN fail(ErrTeardown)
         ELSE IF rmFault
         THEN [fail(ErrRemove) EXCEPT !.attached = @ \ {d.device}]
         ELSE [sm EXCEPT
                 !.op = "Release", !.id = id, !.size = 0, !.err = Nil,
                 !.ret = "",
                 !.attached = @ \ {d.device},
                 !.currentStorageUsage = @ - d.size,
                 !.managedLoopDevices =
                     IF @ = NilMap THEN NilMap
                     ELSE [x \in DOMAIN @ \ {id} |-> @[x]]]

(***************************************************************************)
(* Specifications.                                                          *)
(***************************************************************************)
\* No single call has been made.
NoLvd == [op |-> "none"]
NoK8s == [op |-> "none"]
NoDrv == [op |-> "none"]
NoSm == [op |-> "none"]
NoRpc == [op |-> "none"]
TestIdle == sm = NoSm /\ rpc = NoRpc
SvcIdle == lvd = NoLvd /\ k8s = NoK8s /\ drv = NoDrv /\ TestIdle

SingleCallsIdle ==
    /\ vgCall = NoVgCall
    /\ lvCall = NoLvCall
    /\ attrCall = NoAttrCall
    /\ freeCall = NoFreeCall

CallsIdle == SingleCallsIdle /\ SvcIdle

InitCommand == cmdImpl \in Impls /\ CmdInit /\ host = {} /\ LvmIdle /\ CallsIdle

NextCommand ==
    \/ /\ \E impl \in Impls, into \in BOOLEAN, pipeOk \in BOOLEAN,
             startOk \in BOOLEAN, out \in Stdouts :
             CmdStart(impl, into, pipeOk, startOk, out)
       /\ UNCHANGED <<lvmVars, callVars, svcVars>>
    \/ /\ \E code \in ExitCodes : ProcExit(code)
       /\ UNCHANGED <<lvmVars, callVars, svcVars>>
    \/ CtxCancel /\ UNCHANGED <<lvmVars, callVars, svcVars>>
    \/ CmdBody /\ UNCHANGED <<lvmVars, callVars, svcVars>>
    \/ /\ \E closeOk \in BOOLEAN : CmdClosePipe(closeOk)
       /\ UNCHANGED <<lvmVars, callVars, svcVars>>
    \/ CmdWait /\ UNCHANGED <<lvmVars, callVars, svcVars>>
    \/ CmdNext /\ UNCHANGED <<lvmVars, callVars, svcVars>>

SpecCommand == InitCommand /\ [][NextCommand]_vars

Init == cmdImpl \in Impls /\ CmdInit /\ LvmInit /\ CallsIdle

\* The names the caller uses: its own volume group and one that does not
\* exist; the volumes it creates.
CallerVgs == {"vg0"}
LookupVgs == CallerVgs \cup {"vgX"}
LookupNames == LvNames
CreateNames == {"b"}

Next ==
    \/ Restart /\ UNCHANGED <<cmdImpl, cmdVars, callVars, svcVars>>
    \/ /\ \E name \in LookupVgs, fault \in Faults :
             DoFindVolumeGroup(name, fault)
       /\ UNCHANGED <<cmdImpl, cmdVars, callVars, svcVars>>
    \/ /\ \E name \in CallerVgs, fault \in Faults : DoListVolumeGroups(name, fault)
       /\ UNCHANGED <<cmdImpl, cmdVars, callVars, svcVars>>
    \/ /\ \E fault \in Faults : DoUpdate(fault)
       /\ UNCHANGED <<cmdImpl, cmdVars, callVars, svcVars>>
    \/ /\ \E fault \in Faults : DoListVolumes(fault)
       /\ UNCHANGED <<cmdImpl, cmdVars, callVars, svcVars>>
    \/ /\ \E name \in LookupNames, fault \in Faults : DoFindVolume(name, fault)
       /\ UNCHANGED <<cmdImpl, cmdVars, callVars, svcVars>>
    \/ /\ \E fault \in Faults : DoListPools(fault)
       /\ UNCHANGED <<cmdImpl, cmdVars, callVars, svcVars>>
    \/ /\ \E name \in LookupNames, fault \in Faults : DoFindPool(name, fault)
       /\ UNCHANGED <<cmdImpl, cmdVars, callVars, svcVars>>
    \/ /\ \E name \in CreateNames, size \in Sizes, fault \in Faults :
             DoCreateVolume(name, size, fault)
       /\ UNCHANGED <<cmdImpl, cmdVars, callVars, svcVars>>
    \/ /\ \E newSize \in Sizes, f1 \in Faults, f2 \in Faults :
             DoLvResize(newSize, f1, f2)
       /\ UNCHANGED <<cmdImpl, cmdVars, callVars, svcVars>>
    \/ /\ \E newSize \in Sizes, f1 \in Faults, f2 \in Faults :
             DoPoolResize(newSize, f1, f2)
       /\ UNCHANGED <<cmdImpl, cmdVars, callVars, svcVars>>

Spec == Init /\ [][Next]_vars

NextVg ==
    /\ \E name \in LookupVgs, res \in VgResults : DoVgLookup(name, res)
    /\ UNCHANGED <<cmdImpl, cmdVars, lvmVars, lvCall, attrCall, freeCall, svcVars>>

SpecVg == InitCommand /\ [][NextVg]_vars

\* The arguments single calls are made with.
SnapshotNames == {"s"}
RenameNames == {"a", "n"}
Accesses == {"ro", "rw", "wo"}
Stripes == {0, 2}
StripeSizes == {"", "64k"}
OptionLists == {<<>>, <<"--type=raid1">>, <<"--mirrors", "1">>}

NextLv ==
    \/ /\ \E l \in LvValues : LvObtain(l)
       /\ UNCHANGED <<cmdImpl, cmdVars, lvmVars, vgCall, attrCall, freeCall, svcVars>>
    \/ /\ \E name \in SnapshotNames, tags \in TagSeqs, fault \in Faults :
             DoThinSnapshot(name, tags, fault)
       /\ UNCHANGED <<cmdImpl, cmdVars, lvmVars, vgCall, attrCall, freeCall, svcVars>>
    \/ /\ \E access \in Accesses, fault \in Faults : DoActivate(access, fault)
       /\ UNCHANGED <<cmdImpl, cmdVars, lvmVars, vgCall, attrCall, freeCall, svcVars>>
    \/ /\ \E name \in RenameNames, fault \in Faults : DoRename(name, fault)
       /\ UNCHANGED <<cmdImpl, cmdVars, lvmVars, vgCall, attrCall, freeCall, svcVars>>

SpecLv == InitCommand /\ [][NextLv]_vars

NextArgs ==
    \/ /\ \E name \in CreateNames, size \in Sizes, tags \in TagSeqs,
             stripe \in Stripes, stripeSize \in StripeSizes,
             opts \in OptionLists, fault \in Faults :
             DoVgCreateVolume("vg0", name, size, tags, stripe, stripeSize, opts, fault)
       /\ UNCHANGED <<cmdImpl, cmdVars, lvmVars, vgCall, attrCall, freeCall, svcVars>>
    \/ /\ \E name \in CreateNames, size \in Sizes, tags \in TagSeqs,
             stripe \in Stripes, stripeSize \in StripeSizes,
             opts \in OptionLists, fault \in Faults :
             DoPoolCreateVolume(fullName("p", "vg0"), name, size, tags, stripe,
                                stripeSize, opts, fault)
       /\ UNCHANGED <<cmdImpl, cmdVars, lvmVars, vgCall, attrCall, freeCall, svcVars>>

SpecArgs == InitCommand /\ [][NextArgs]_vars

\* The attribute parser on one lv_attr string.
InitAttr ==
    /\ cmdImpl = CommandReadCloser
    /\ CmdInit
    /\ host = {}
    /\ LvmIdle
    /\ vgCall = NoVgCall
    /\ lvCall = NoLvCall
    /\ AttrInit
    /\ freeCall = NoFreeCall
    /\ SvcIdle

NextAttr ==
    \/ /\ DoParsedLvAttr
       /\ UNCHANGED <<cmdImpl, cmdVars, lvmVars, vgCall, lvCall, freeCall, svcVars>>
    \/ /\ DoString
       /\ UNCHANGED <<cmdImpl, cmdVars, lvmVars, vgCall, lvCall, freeCall, svcVars>>
    \/ /\ DoVerifyHealth
       /\ UNCHANGED <<cmdImpl, cmdVars, lvmVars, vgCall, lvCall, freeCall, svcVars>>

SpecAttr == InitAttr /\ [][NextAttr]_vars

\* Free-bytes queries on the thin pool vg0/p while the host changes.
InitFree == cmdImpl \in Impls /\ CmdInit /\ host = FreeHost /\ LvmIdle /\ CallsIdle

NextFree ==
    \/ /\ \E name \in {"a", "b"}, kind \in LvKinds, size \in VolumeSizes :
             HostPut(name, kind, size)
       /\ UNCHANGED <<cmdImpl, cmdVars, vgCall, lvCall, attrCall, svcVars>>
    \/ /\ \E name \in {"a", "b"} : HostRemove(name)
       /\ UNCHANGED <<cmdImpl, cmdVars, vgCall, lvCall, attrCall, svcVars>>
    \/ /\ \E ratio \in Ratios, f1 \in Faults, f2 \in Faults, f3 \in Faults :
             DoGetFreeBytes(mkDeviceClass("vg0", "p", ratio), f1, f2, f3)
       /\ UNCHANGED <<cmdImpl, cmdVars, lvmVars, vgCall, lvCall, attrCall, svcVars>>

SpecFree == InitFree /\ [][NextFree]_vars

\* The lvmd services on a host with the pool vg0/p, and one watcher.
LvdHost == {mkLv("vg0", "p", 2, "", 0, "", TRUE)}

InitLvd ==
    /\ cmdImpl \in Impls
    /\ CmdInit
    /\ host = LvdHost
    /\ LvmIdle
    /\ SingleCallsIdle
    /\ LvdInit
    /\ k8s = NoK8s
    /\ drv = NoDrv
    /\ TestIdle

NextLvd ==
    \/ /\ \E dc \in DeviceClasses, size \in LvdSizes, f \in FaultSeqs :
             DoCreateLV(dc, "a", size, f)
       /\ UNCHANGED <<cmdImpl, cmdVars, callVars, k8s, drv, sm, rpc>>
    \/ /\ \E dc \in DeviceClasses, size \in LvdSizes, f \in FaultSeqs :
             DoResizeLV(dc, "a", size, f)
       /\ UNCHANGED <<cmdImpl, cmdVars, callVars, k8s, drv, sm, rpc>>
    \/ /\ \E dc \in DeviceClasses, f \in FaultSeqs : DoRemoveLV(dc, "a", f)
       /\ UNCHANGED <<cmdImpl, cmdVars, callVars, k8s, drv, sm, rpc>>

SpecLvd == InitLvd /\ [][NextLvd]_vars

\* The LV service called directly and through the client NewLocal returns.
NextLocal ==
    \/ NextLvd
    \/ /\ \E dc \in DeviceClasses, size \in LvdSizes, f \in FaultSeqs :
             ClientCreateLV(dc, "a", size, f)
       /\ UNCHANGED <<cmdImpl, cmdVars, callVars, k8s, drv, sm, rpc>>
    \/ /\ \E dc \in DeviceClasses, size \in LvdSizes, f \in FaultSeqs :
             ClientResizeLV(dc, "a", size, f)
       /\ UNCHANGED <<cmdImpl, cmdVars, callVars, k8s, drv, sm, rpc>>
    \/ /\ \E dc \in DeviceClasses, f \in FaultSeqs : ClientRemoveLV(dc, "a", f)
       /\ UNCHANGED <<cmdImpl, cmdVars, callVars, k8s, drv, sm, rpc>>

SpecLocal == InitLvd /\ [][NextLocal]_vars

\* The LV service with a watcher of the VG service.  The commands of an
\* RPC run, or its lvcreate / lvresize / lvremove fails.
WatchFaults ==
    {[i \in 1..5 |-> IF i = k THEN "exit5" ELSE "none"] : k \in {0, 4}}
WatchSizes == {1, MaxSize}

WatchDeliverStep ==
    WatchDeliver /\ UNCHANGED <<cmdImpl, cmdVars, callVars, k8s, drv, sm, rpc>>

NextWatch ==
    \/ /\ \E dc \in DeviceClasses, size \in WatchSizes, f \in WatchFaults :
             DoCreateLV(dc, "a", size, f)
       /\ UNCHANGED <<cmdImpl, cmdVars, callVars, k8s, drv, sm, rpc>>
    \/ /\ \E dc \in DeviceClasses, size \in WatchSizes, f \in WatchFaults :
             DoResizeLV(dc, "a", size, f)
       /\ UNCHANGED <<cmdImpl, cmdVars, callVars, k8s, drv, sm, rpc>>
    \/ /\ \E dc \in DeviceClasses, f \in WatchFaults : DoRemoveLV(dc, "a", f)
       /\ UNCHANGED <<cmdImpl, cmdVars, callVars, k8s, drv, sm, rpc>>
    \/ /\ WatchSubscribe
       /\ UNCHANGED <<cmdImpl, cmdVars, callVars, k8s, drv, sm, rpc>>
    \/ WatchDeliverStep

InitWatch == InitLvd /\ cmdImpl = PipeClosingReadCloser

\* The watch stream's sender runs whenever it has a tick: weak fairness of
\* WatchDeliverStep, whose enabling condition is DeliverEnabled (the step
\* always shortens the channel).
DeliverEnabled == lvd.subscribed /\ lvd.chan # <<>>

WatchFair == []<>(~DeliverEnabled) \/ []<><<WatchDeliverStep>>_vars

SpecWatch == InitWatch /\ [][NextWatch]_vars /\ WatchFair

\* The controller's LogicalVolume service, the informer and the node's
\* controller.  At most one of the reads and writes of a step fails.
K8sSizes == {1, 2}
K8sSources == {"", "s"}
K8sFaults == {<<FALSE, FALSE, FALSE>>, <<TRUE, FALSE, FALSE>>,
              <<FALSE, TRUE, FALSE>>, <<FALSE, FALSE, TRUE>>}
K8sRest == <<cmdImpl, cmdVars, lvmVars, callVars, lvd, drv, sm, rpc>>

InitK8s ==
    /\ cmdImpl = CommandReadCloser /\ CmdInit /\ host = {} /\ LvmIdle
    /\ SingleCallsIdle /\ lvd = NoLvd /\ drv = NoDrv /\ TestIdle
    /\ K8sInit

\* CreateVolume and CreateSnapshot on one name.
NextK8sCreate ==
    \/ /\ \E src \in K8sSources, size \in K8sSizes, f \in K8sFaults :
             K8sCreateVolume("v1", src, size, f[1], f[2], f[3])
       /\ UNCHANGED K8sRest
    \/ /\ \E at \in {"ro", "rw"}, f \in K8sFaults :
             K8sCreateSnapshot("v1", "s", at, 1, f[1], f[2], f[3])
       /\ UNCHANGED K8sRest
    \/ /\ \E f \in K8sFaults, fin \in BOOLEAN :
             WaitPoll(f[1], f[2], f[3], fin)
       /\ UNCHANGED K8sRest
    \/ CtxDone /\ UNCHANGED K8sRest
    \/ CacheSync("v1") /\ UNCHANGED K8sRest
    \/ NodeSetStatus("v1", "id1", CodeOK) /\ UNCHANGED K8sRest
    \/ NodeSetStatus("v1", "", CodeInternal) /\ UNCHANGED K8sRest
    \/ NodeFinalize("v1") /\ UNCHANGED K8sRest

SpecK8sCreate == InitK8s /\ [][NextK8sCreate]_vars

\* DeleteVolume on the volumes of two names.
NextK8sDelete ==
    \/ /\ \E n \in CrNames, f \in K8sFaults :
             K8sCreateVolume(n, "", 1, f[1], f[2], f[3])
       /\ UNCHANGED K8sRest
    \/ /\ \E f \in K8sFaults, fin \in BOOLEAN :
             WaitPoll(f[1], f[2], f[3], fin)
       /\ UNCHANGED K8sRest
    \/ CtxDone /\ UNCHANGED K8sRest
    \/ /\ \E id \in VolumeIDs, f \in K8sFaults, fin \in BOOLEAN :
             K8sDeleteVolume(id, f[1], f[2], f[3], fin)
       /\ UNCHANGED K8sRest
    \/ /\ \E f \in K8sFaults : K8sDeleteVolumePoll(f[1], f[2])
       /\ UNCHANGED K8sRest
    \/ (\E n \in CrNames : CacheSync(n)) /\ UNCHANGED K8sRest
    \/ /\ NodeSetStatus("v1", "id1", CodeOK) /\ UNCHANGED K8sRest
    \/ /\ NodeSetStatus("v2", "id2", CodeOK) /\ UNCHANGED K8sRest
    \/ (\E n \in CrNames : NodeFinalize(n)) /\ UNCHANGED K8sRest

SpecK8sDelete == InitK8s /\ [][NextK8sDelete]_vars

\* GetVolume on the volumes of two names, whose IDs may coincide.
NextK8sGet ==
    \/ /\ \E n \in CrNames, f \in K8sFaults :
             K8sCreateVolume(n, "", 1, f[1], f[2], f[3])
       /\ UNCHANGED K8sRest
    \/ /\ \E f \in K8sFaults, fin \in BOOLEAN :
             WaitPoll(f[1], f[2], f[3], fin)
       /\ UNCHANGED K8sRest
    \/ CtxDone /\ UNCHANGED K8sRest
    \/ /\ \E id \in VolumeIDs, f \in K8sFaults :
             DoGetVolume(id, f[1], f[2])
       /\ UNCHANGED K8sRest
    \/ (\E n \in CrNames : CacheSync(n)) /\ UNCHANGED K8sRest
    \/ /\ \E n \in CrNames, id \in VolumeIDs :
             NodeSetStatus(n, id, CodeOK)
       /\ UNCHANGED K8sRest
    \/ /\ \E n \in CrNames : NodeSetStatus(n, "", CodeInternal)
       /\ UNCHANGED K8sRest
    \/ (\E n \in CrNames : NodeFinalize(n)) /\ UNCHANGED K8sRest

SpecK8sGet == InitK8s /\ [][NextK8sGet]_vars

\* ExpandVolume on a volume that was provisioned before: its CR has the
\* volume ID, a status code, and a currentSize or (written before the field
\* existed) none; the cache has it or has not seen it yet.
ExpandCrs ==
    {[mkCr("v1", 1, "", "", "id1", code, FALSE) EXCEPT !.currentSize = cs] :
        code \in {CodeOK, CodeInternal}, cs \in {<<>>, <<1>>}}

InitK8sExpand ==
    /\ cmdImpl = CommandReadCloser /\ CmdInit /\ host = {} /\ LvmIdle
    /\ SingleCallsIdle /\ lvd = NoLvd /\ drv = NoDrv /\ TestIdle
    /\ \E cr \in ExpandCrs, cached \in BOOLEAN :
          k8s = [api |-> [n \in CrNames |-> IF n = "v1" THEN cr ELSE NoCr],
                 cache |-> [n \in CrNames |->
                              IF n = "v1" /\ cached THEN cr ELSE NoCr],
                 call |-> K8sIdleCall]

NextK8sExpand ==
    \/ /\ \E id \in VolumeIDs, size \in K8sSizes, f \in K8sFaults :
             K8sExpandVolume(id, size, f[1], f[2])
       /\ UNCHANGED K8sRest
    \/ /\ \E f \in K8sFaults : UpdateSpecSize(f[1], f[2], f[3])
       /\ UNCHANGED K8sRest
    \/ /\ \E f \in K8sFaults : ExpandPoll(f[1], f[2])
       /\ UNCHANGED K8sRest
    \/ CtxDone /\ UNCHANGED K8sRest
    \/ CacheSync("v1") /\ UNCHANGED K8sRest
    \/ NodeResize("v1", CodeOK) /\ UNCHANGED K8sRest
    \/ NodeResize("v1", CodeInternal) /\ UNCHANGED K8sRest

SpecK8sExpand == InitK8sExpand /\ [][NextK8sExpand]_vars

\* The driver's functions on one input each.
DrvRest == <<cmdImpl, cmdVars, lvmVars, callVars, lvd, k8s, sm, rpc>>

DrvIdle ==
    /\ cmdImpl = CommandReadCloser /\ CmdInit /\ host = {} /\ LvmIdle
    /\ SingleCallsIdle /\ lvd = NoLvd /\ k8s = NoK8s /\ TestIdle

InitAlloc == DrvIdle /\ AllocInit

NextAlloc ==
    \/ DoGetMinimumAllocationSize /\ UNCHANGED DrvRest
    \/ DoMinMaxAllocationsFromSettings /\ UNCHANGED DrvRest
    \/ DoConvertAllocations /\ UNCHANGED DrvRest

SpecAlloc == InitAlloc /\ [][NextAlloc]_vars

InitCapacity == DrvIdle /\ CapacityInit

NextCapacity ==
    \/ DoConvertRequestCapacityBytes /\ UNCHANGED DrvRest
    \/ DoConvertResult /\ UNCHANGED DrvRest

SpecCapacity == InitCapacity /\ [][NextCapacity]_vars

\* The StorageManager of one test, called from its goroutines.
SmIds == {"a", "b"}
SmSizes == {10, 20, 31}
SmRest == <<cmdImpl, cmdVars, lvmVars, callVars, lvd, k8s, drv, rpc>>

InitStorage ==
    /\ cmdImpl = CommandReadCloser /\ CmdInit /\ host = {} /\ LvmIdle
    /\ SingleCallsIdle /\ lvd = NoLvd /\ k8s = NoK8s /\ drv = NoDrv
    /\ rpc = NoRpc
    /\ sm = NewStorageManager

NextStorage ==
    \/ /\ \E id \in SmIds, size \in SmSizes, ff \in BOOLEAN, lf \in BOOLEAN :
             Allocate(id, size, ff, lf)
       /\ UNCHANGED SmRest
    \/ /\ \E id \in SmIds, tf \in BOOLEAN, rf \in BOOLEAN : Release(id, tf, rf)
       /\ UNCHANGED SmRest

SpecStorage == InitStorage /\ [][NextStorage]_vars

\* Two CreateLV RPCs against one device class, each creating a volume of
\* its own name.
RpcSizes == {1, ExtentSize, MaxSize}

InitRpc ==
    /\ cmdImpl = CommandReadCloser /\ CmdInit /\ host = LvdHost /\ LvmIdle
    /\ SingleCallsIdle /\ lvd = NoLvd /\ k8s = NoK8s /\ drv = NoDrv
    /\ sm = NoSm
    /\ \E dc \in DeviceClasses : RpcInit(dc)

NextRpc ==
    \/ /\ \E c \in Callers, size \in RpcSizes : RpcPreCheck(c, size)
       /\ UNCHANGED <<cmdImpl, cmdVars, callVars, lvd, k8s, drv, sm>>
    \/ /\ \E c \in Callers : RpcCreate(c)
       /\ UNCHANGED <<cmdImpl, cmdVars, callVars, lvd, k8s, drv, sm>>

SpecRpc == InitRpc /\ [][NextRpc]_vars

(***************************************************************************)
(* The stepped adapter and its summary callLVMInto agree on what a call     *)
(* returns and on when it panics.                                           *)
(***************************************************************************)
CommandSummaryAgrees ==
    LET o == [started |-> cmdErr = Nil, exit |-> procExit, stdout |-> procStdout] IN
    /\ cmdPc = "returned" => /\ cmdRet = callLVMInto(cmdImpl, cmdInto, o).err
                             /\ ~callLVMInto(cmdImpl, cmdInto, o).panics
    /\ cmdPc = "panicked" => callLVMInto(cmdImpl, cmdInto, o).panics

(***************************************************************************)
(* Claims about the command adapter (SpecCommand).                          *)
(***************************************************************************)
\* C1: when the subprocess has exited with a non-zero status, callLVM and
\* callLVMInto return a non-nil error whose message carries the captured
\* stderr.  Stated for the calls that waited for the subprocess.
C1_NonZeroExitIsReturned ==
    (cmdPc = "returned" /\ procState = "reaped" /\ procExit # 0)
        => (cmdRet # Nil /\ CarriesStderr(cmdRet))

\* C2: every subprocess that was started has been waited on when the
\* adapter call returns, also when closing the stdout pipe failed.
C2_StartedProcessIsReaped ==
    cmdPc = "returned" => procState \in {"none", "reaped"}

\* C3: when the stdout pipe cannot be created or the subprocess cannot be
\* started, the call returns an error value, its release step does not
\* crash, and no process is waited on.
C3_StartFailureIsReturned ==
    cmdErr # Nil => (cmdPc = "returned" /\ cmdRet # Nil /\ procState = "none")

\* C4: a call whose context was cancelled while the subprocess was running
\* returns a cancellation error.
C4_CancelledCallReturnsCanceled ==
    (cmdPc = "returned" /\ ctxCancelled) => cmdRet = ErrCanceled

(***************************************************************************)
(* Claims about the domain model (Spec).                                    *)
(***************************************************************************)
LookupOps == {"ListVolumes", "FindVolume", "ListPools", "FindPool"}

\* C5: after vg.CreateVolume(name) returned success, the next
\* vg.FindVolume(name) on the same VolumeGroup value returns the new volume.
\* Stated for an lvcreate that ran to exit 0 and a lookup the adapter did
\* not fail.
C5_FindVolumeAfterCreate ==
    [][(/\ op.name = "CreateVolume" /\ op.err = Nil /\ op.applied
        /\ op'.name = "FindVolume" /\ op'.argName = op.argName
        /\ op'.adapterErr = Nil)
       => (op'.err = Nil /\ op'.ret = {op.argName})]_vars

\* C6: on a VolumeGroup returned by ListVolumeGroups the lookups invoke no
\* subprocess, and its pre-filtered list is exactly the reported LVs of its
\* name.
C6_ListedGroupAnswersFromItsList ==
    /\ (vgFrom = "list" /\ op.name \in LookupOps) => op.cmds = <<>>
    /\ (op.name = "ListVolumeGroups" /\ op.err = Nil) =>
          vgVal[1].reportLvs = Report({l \in host : l.vgName = vgVal[1].state.name})

\* C7: lv.Resize(new) with new < size returns an error and with new = size
\* returns success; in both cases no subprocess is invoked, LVM's state is
\* untouched and the recorded size stays.
C7_ResizeShrinkOrSame ==
    (op.name = "Resize" /\ op.argSize <= op.old) =>
        /\ op.argSize < op.old => op.err = ErrShrink
        /\ op.argSize = op.old => op.err = Nil
        /\ op.cmds = <<>>
        /\ ~op.applied
        /\ lvVal[1].size = op.old

C7_Witness ==
    /\ op.name = "Resize"
    /\ op.argSize < op.old
    /\ op.err = ErrShrink
    /\ lvVal[1].size = op.old

\* C8: after lv.Resize(new) returned success with new > size, the recorded
\* size is the size LVM reports after the lvresize, and is at least new.
\* Stated for an lvresize that ran to exit 0.
C8_ResizeRecordsObservedSize ==
    (op.name = "Resize" /\ op.err = Nil /\ op.argSize > op.old /\ op.applied) =>
        /\ lvVal[1].size >= op.argSize
        /\ \E l \in HostLv(host, lvVal[1].fullname[1], lvVal[1].name) :
              lvVal[1].size = convertLV(vgVal[1], l).size

\* C9: pool.Resize(new) with new other than the pool's size, whose lvresize
\* succeeded, returns success and records the pool's size as LVM reports it.
\* Stated for a re-read the adapter did not fail.
C9_PoolResizeRecordsObservedSize ==
    (/\ op.name = "PoolResize" /\ op.argSize # op.old /\ op.applied
     /\ isThinPool(poolVal[1].state) /\ op.adapterErr = Nil) =>
        /\ op.err = Nil
        /\ \E l \in HostLv(host, poolVal[1].state.vgName, poolVal[1].state.name) :
              poolVal[1].state.size = l.size

\* C10: a volume lookup that invoked lvs returns NotFound only when the
\* adapter returned no error for that invocation.
C10_NotFoundOnlyWithoutAdapterError ==
    (op.name \in {"ListVolumes", "FindVolume"} /\ op.cmds = <<"lvs">>
     /\ op.err = ErrNotFound) => op.adapterErr = Nil

(***************************************************************************)
(* Claims about single calls (SpecVg).                                      *)
(***************************************************************************)
\* C11: FindVolumeGroup(name) returns NotFound when the decoded vgs report is
\* empty or holds no VG of that name, and otherwise a VG whose name, uuid,
\* size and free bytes are those of the entry of that name; FindVolumeGroup
\* and getVGReport give the same outcome for the same command result.
C11_LookupsAgree ==
    vgCall.op = "lookup" =>
        LET hit == SelectSeq(vgCall.resVG, LAMBDA v : v.name = vgCall.name) IN
        /\ (vgCall.err = Nil /\ Len(hit) = 0) => vgCall.find.err = ErrNotFound
        /\ (vgCall.err = Nil /\ Len(hit) > 0) =>
              (vgCall.find.err = Nil /\ vgCall.find.vg = <<hit[1]>>)
        /\ vgCall.find = vgCall.report

(***************************************************************************)
(* Claims about LogicalVolume methods (SpecLv) and lvcreate arguments       *)
(* (SpecArgs).                                                              *)
(***************************************************************************)
\* From position k + 1 on, a holds --addtag <t> for each tag in order.
TagsAt(a, k, tags) ==
    /\ Len(a) >= k + 2 * Len(tags)
    /\ \A i \in 1..Len(tags) :
          a[k + 2 * i - 1] = "--addtag" /\ a[k + 2 * i] = tags[i]

\* How many stripe arguments the contract asks for.
StripeCount(stripe, stripeSize) ==
    IF stripe = 0 THEN 0 ELSE IF stripeSize = "" THEN 2 ELSE 4

\* From position k + 1 on, a holds -i <stripe> and -I <stripe_size> as the
\* contract asks, then the extra options in order.
StripeAndOptionsAt(a, k, stripe, stripeSize, opts) ==
    LET n == StripeCount(stripe, stripeSize) IN
    /\ Len(a) >= k + n + Len(opts)
    /\ n >= 2 => (a[k + 1] = "-i" /\ a[k + 2] = ToString(stripe))
    /\ n = 4 => (a[k + 3] = "-I" /\ a[k + 4] = stripeSize)
    /\ SubSeq(a, k + n + 1, k + n + Len(opts)) = opts

Holds(a, s) == \E i \in 1..Len(a) : a[i] = s

\* C12: ThinSnapshot on a volume that is not thin and Activate with an access
\* other than "ro" and "rw" return an error and issue no command; for a thin
\* source and access rw the commands are lvcreate -s -k n -n <name>
\* <vg/source> with --addtag per tag, then lvchange -k n -a y <snapshot path>.
C12_SnapshotAndActivate ==
    /\ (lvCall.op = "ThinSnapshot" /\ lvCall.before.pool = "") =>
          (lvCall.err # Nil /\ lvCall.argv = <<>>)
    /\ (lvCall.op = "Activate" /\ lvCall.access \notin {"ro", "rw"}) =>
          (lvCall.err # Nil /\ lvCall.argv = <<>>)
    /\ (lvCall.op = "Activate" /\ lvCall.access = "rw"
            /\ lvCall.prev.op = "ThinSnapshot"
            /\ lvCall.lv.name = lvCall.prev.name) =>
          /\ Len(lvCall.prev.argv) = 1
          /\ SubSeq(lvCall.prev.argv[1], 1, 7)
                = <<"lvcreate", "-s", "-k", "n", "-n", lvCall.prev.name,
                    lvCall.prev.source>>
          /\ TagsAt(lvCall.prev.argv[1], 7, lvCall.prev.tags)
          /\ Len(lvCall.prev.argv[1]) = 7 + 2 * Len(lvCall.prev.tags)
          /\ lvCall.argv
                = << <<"lvchange", "-k", "n", "-a", "y",
                       lvCall.lv.path.dir \o "/" \o lvCall.lv.path.base>> >>

C12_Witness ==
    /\ lvCall.op = "Activate" /\ lvCall.access = "rw" /\ lvCall.err = Nil
    /\ lvCall.prev.op = "ThinSnapshot" /\ lvCall.prev.source = "vg0/a"
    /\ lvCall.lv.name = lvCall.prev.name
    /\ Len(lvCall.prev.tags) = 2
    /\ lvCall.argv = << <<"lvchange", "-k", "n", "-a", "y", "/dev/vg0/s">> >>

\* C13: Rename(new): when lvrename succeeds, name is new, the full name is
\* <vg>/<new> and the path keeps its directory with new as its base name;
\* when lvrename fails the three are unchanged.  Size, origin, pool, device
\* numbers and tags are unchanged in both cases.
C13_RenameFields ==
    lvCall.op = "Rename" =>
        /\ lvCall.lvmOk =>
              /\ lvCall.lv.name = lvCall.name
              /\ lvCall.lv.fullname = lvCall.lv.vg \o "/" \o lvCall.name
              /\ lvCall.lv.path.dir = lvCall.before.path.dir
              /\ lvCall.lv.path.base = lvCall.name
        /\ ~lvCall.lvmOk =>
              /\ lvCall.lv.name = lvCall.before.name
              /\ lvCall.lv.fullname = lvCall.before.fullname
              /\ lvCall.lv.path = lvCall.before.path
        /\ lvCall.lv.size = lvCall.before.size
        /\ lvCall.lv.origin = lvCall.before.origin
        /\ lvCall.lv.pool = lvCall.before.pool
        /\ lvCall.lv.devMajor = lvCall.before.devMajor
        /\ lvCall.lv.devMinor = lvCall.before.devMinor
        /\ lvCall.lv.tags = lvCall.before.tags

\* C14: vg.CreateVolume issues lvcreate -n <name> -L <size>b -W y -y, then
\* --addtag <t> per tag in order, then -i <stripe> (and -I <stripe_size> when
\* that is set) only when stripe is not 0, then the extra options, then the
\* VG name; there is no -I when stripe is 0.
C14_CreateVolumeArgv ==
    lvCall.op = "CreateVolume" =>
        /\ Len(lvCall.argv) = 1
        /\ LET a == lvCall.argv[1]
               k == 8 + 2 * Len(lvCall.tags)
               n == StripeCount(lvCall.stripe, lvCall.stripeSize)
           IN /\ SubSeq(a, 1, 8)
                    = <<"lvcreate", "-n", lvCall.name, "-L",
                        ToString(lvCall.size) \o "b", "-W", "y", "-y">>
              /\ TagsAt(a, 8, lvCall.tags)
              /\ StripeAndOptionsAt(a, k, lvCall.stripe, lvCall.stripeSize, lvCall.opts)
              /\ Len(a) = k + n + Len(lvCall.opts) + 1
              /\ a[Len(a)] = "vg0"
              /\ lvCall.stripe = 0 => ~Holds(a, "-I")

C14_Witness ==
    /\ lvCall.op = "CreateVolume"
    /\ lvCall.stripe # 0 /\ lvCall.stripeSize # ""
    /\ Len(lvCall.tags) = 2 /\ Len(lvCall.opts) = 2
    /\ lvCall.argv[1][Len(lvCall.argv[1])] = "vg0"

\* C15: pool.CreateVolume issues lvcreate -T <vg/pool> -n <name> -V <size>b
\* -W y -y, then the tag, stripe and extra-option arguments of the thick
\* variant; the size is given as -V, never -L.
C15_ThinCreateVolumeArgv ==
    lvCall.op = "PoolCreateVolume" =>
        /\ Len(lvCall.argv) = 1
        /\ LET a == lvCall.argv[1]
               k == 10 + 2 * Len(lvCall.tags)
               n == StripeCount(lvCall.stripe, lvCall.stripeSize)
           IN /\ SubSeq(a, 1, 10)
                    = <<"lvcreate", "-T", "vg0/p", "-n", lvCall.name, "-V",
                        ToString(lvCall.size) \o "b", "-W", "y", "-y">>
              /\ TagsAt(a, 10, lvCall.tags)
              /\ StripeAndOptionsAt(a, k, lvCall.stripe, lvCall.stripeSize, lvCall.opts)
              /\ Len(a) = k + n + Len(lvCall.opts)
              /\ ~Holds(a, "-L")

C15_Witness ==
    /\ lvCall.op = "PoolCreateVolume"
    /\ lvCall.stripe # 0 /\ lvCall.stripeSize = ""
    /\ Len(lvCall.tags) = 1 /\ Len(lvCall.opts) = 1
    /\ lvCall.argv[1][6] = "-V"

\* C16: for every well-formed 10-character lv_attr string a, String of the
\* record ParsedLvAttr gives for a is a itself.
C16_RoundTrip ==
    (attrCall.op = "String" /\ attrCall.raw \in WellFormedAttrs)
        => attrCall.str = attrCall.raw

\* C17: ParsedLvAttr fails exactly for the strings whose length is not 10,
\* and for a string of length 10 it sets VolumeType, Permissions,
\* AllocationPolicy, Minor, State, Open, OpenTarget, Zero and VolumeHealth
\* to characters 1 to 9 in that order; "Rwi-a-r---" gives RAIDNoInitialSync,
\* Writeable, Inherited, Minor false, Active, Open false, Raid, Zero false
\* and health Missing.
C17_ParsedLvAttr ==
    attrCall.op \in {"ParsedLvAttr", "String", "VerifyHealth"} =>
        LET raw == attrCall.raw
            a == attrCall.attr
        IN /\ (attrCall.err # Nil) <=> (Len(raw) # 10)
           /\ Len(raw) = 10 =>
                 /\ a.VolumeType = raw[1]
                 /\ a.Permissions = raw[2]
                 /\ a.AllocationPolicy = raw[3]
                 /\ a.Minor = raw[4]
                 /\ a.State = raw[5]
                 /\ a.Open = raw[6]
                 /\ a.OpenTarget = raw[7]
                 /\ a.Zero = raw[8]
                 /\ a.VolumeHealth = raw[9]
           /\ raw = <<"R", "w", "i", "-", "a", "-", "r", "-", "-", "-">> =>
                 a = mkLvAttr(VolumeTypeRAIDNoInitialSync,
                              PermissionsWriteable, AllocationPolicyInherited,
                              MinorFalse, StateActive, OpenFalse,
                              OpenTargetRaid, ZeroFalse, VolumeHealthMissing)

C17_Witness ==
    /\ attrCall.op = "ParsedLvAttr"
    /\ attrCall.raw = <<"R", "w", "i", "-", "a", "-", "r", "-", "-", "-">>
    /\ attrCall.err = Nil
    /\ attrCall.attr.VolumeType = VolumeTypeRAIDNoInitialSync
    /\ attrCall.attr.VolumeHealth = VolumeHealthMissing

\* The policy table: the rules on VolumeHealth, on State and on Open.
HealthRuleMatches(a) ==
    \/ a.VolumeHealth \in {"p", "X", "E"}
    \/ a.VolumeType = "t" /\ a.VolumeHealth \in {"F", "D", "M"}
    \/ a.VolumeType = "V" /\ a.VolumeHealth = "F"
    \/ a.VolumeType \in {"r", "R"} /\ a.VolumeHealth \in {"r", "m", "s", "R", "w"}

StateRuleMatches(a) ==
    a.State \in {"s", "S", "I", "m", "M", "i", "d", "c", "C", "X", "h"}

OpenRuleMatches(a) == a.Open = "X"

HealthReasons ==
    {ErrPartialActivation, ErrUnknownHealth, ErrWriteCache, ErrThinPoolFailed,
     ErrThinPoolOutOfDataSpace, ErrThinPoolMetadataReadOnly,
     ErrThinVolumeFailed, ErrRAIDRefreshNeeded, ErrRAIDMismatchesExist,
     ErrRAIDReshaping, ErrRAIDReshapeRemoved, ErrRAIDWriteMostly}

StateReasons ==
    {ErrSuspended, ErrInvalidSnapshot, ErrSnapshotMergeFailed,
     ErrInactiveTables, ErrWithoutTables, ErrThinPoolCheckNeeded,
     ErrUnknownState, ErrHistorical}

\* C18: VerifyHealth reports the reason of the first rule that matches: a
\* matching VolumeHealth rule goes before a matching State rule, which goes
\* before the Open rule; a ThinPool with health OutOfDataSpace and State
\* Suspended reports the out-of-data-space reason.
C18_FirstRuleWins ==
    attrCall.op = "VerifyHealth" =>
        LET a == attrCall.attr
            r == attrCall.health
        IN /\ HealthRuleMatches(a) => r \in HealthReasons
           /\ (~HealthRuleMatches(a) /\ StateRuleMatches(a))
                 => r \in StateReasons
           /\ (~HealthRuleMatches(a) /\ ~StateRuleMatches(a)
                  /\ OpenRuleMatches(a)) => r = ErrOpenUnknown
           /\ (a.VolumeType = "t" /\ a.VolumeHealth = "D" /\ a.State = "s")
                 => r = ErrThinPoolOutOfDataSpace

C18_Witness ==
    /\ attrCall.op = "VerifyHealth"
    /\ attrCall.attr.VolumeType = VolumeTypeThinPool
    /\ attrCall.attr.VolumeHealth = VolumeHealthThinPoolOutOfDataSpace
    /\ attrCall.attr.State = StateSuspended
    /\ attrCall.attr.Open = OpenUnknown
    /\ attrCall.health = ErrThinPoolOutOfDataSpace

\* C19: VerifyHealth returns nil exactly when no rule of the policy table
\* matches: health p, X, E for every type; F, D, M for a ThinPool only (F
\* for a ThinVolume too); the five RAID codes for RAID and
\* RAIDNoInitialSync only; the eleven State values and Open unknown for
\* every type.
C19_HealthyIffNoRule ==
    attrCall.op = "VerifyHealth" =>
        LET a == attrCall.attr
        IN (attrCall.health = Nil) <=>
               ~(HealthRuleMatches(a) \/ StateRuleMatches(a)
                 \/ OpenRuleMatches(a))

C19_Witness ==
    /\ attrCall.op = "VerifyHealth"
    /\ attrCall.attr.VolumeType = VolumeTypeThinVolume
    /\ attrCall.attr.VolumeHealth = VolumeHealthThinPoolOutOfDataSpace
    /\ attrCall.attr.State = StateActive
    /\ attrCall.attr.Open = OpenTrue
    /\ attrCall.health = Nil

\* C20: GetFreeBytes for a thin device class is
\* max(0, floor(ratio * pool.size) - V), V being the sum of the sizes of
\* exactly the LVs of the VG that are no pool and whose pool_lv is the
\* pool's name, as the host has them when the query runs (the host may
\* have changed since the query before); the result is never negative.
C20_ThinFreeBytes ==
    (freeCall.op = "GetFreeBytes" /\ freeCall.err = Nil) =>
        LET h == host
            pool == CHOOSE l \in h : l.vgName = freeCall.dc.VolumeGroup
                                     /\ l.name = freeCall.dc.ThinPoolName
            members == {l \in h : /\ l.vgName = freeCall.dc.VolumeGroup
                                  /\ ~l.thinPool
                                  /\ l.poolLV = freeCall.dc.ThinPoolName}
            V == SumSizes(members)
            capacity == (freeCall.dc.OverprovisionRatio[1] * pool.size)
                            \div freeCall.dc.OverprovisionRatio[2]
        IN /\ freeCall.free = (IF capacity - V > 0 THEN capacity - V ELSE 0)
           /\ freeCall.free >= 0

\* A query that ran after the host changed: p has two members whose sizes
\* exceed the overprovisioned capacity.
C20_Witness ==
    /\ freeCall.op = "GetFreeBytes"
    /\ freeCall.err = Nil
    /\ freeCall.dc.OverprovisionRatio = <<5, 4>>
    /\ freeCall.free = 0
    /\ \E a, b \in host :
          /\ a.vgName = "vg0" /\ a.name = "a" /\ a.poolLV = "p" /\ a.size = 4
          /\ b.vgName = "vg0" /\ b.name = "b" /\ b.poolLV = "p"

\* A query with volumes of another pool and thick volumes on the host, and
\* space left in p.
C20_WitnessLeft ==
    /\ freeCall.op = "GetFreeBytes"
    /\ freeCall.err = Nil
    /\ freeCall.dc.OverprovisionRatio = <<2, 1>>
    /\ freeCall.free = 2
    /\ \E a, b \in host :
          /\ a.vgName = "vg0" /\ a.name = "a" /\ a.poolLV = "p" /\ a.size = 2
          /\ b.vgName = "vg0" /\ b.name = "b" /\ b.poolLV # "p"

\* What the device class of the last RPC has free on the host: vg_free of a
\* thick class, the overprovision formula of a thin one.
FreeOnHost(h, dc) ==
    IF dc.ThinPoolName = "" THEN VgFree(h, dc.VolumeGroup)
    ELSE LET pool == CHOOSE l \in h : l.vgName = dc.VolumeGroup
                                      /\ l.name = dc.ThinPoolName
             V == SumSizes({l \in h : /\ l.vgName = dc.VolumeGroup
                                      /\ ~l.thinPool
                                      /\ l.poolLV = dc.ThinPoolName})
             capacity == (dc.OverprovisionRatio[1] * pool.size)
                             \div dc.OverprovisionRatio[2]
         IN IF capacity > V THEN capacity - V ELSE 0

\* C21: a CreateLV whose size exceeds the free bytes its device class has
\* when it is called returns ResourceExhausted (an error in any case), runs
\* no lvcreate, leaves the host's LVs as they are and posts no tick.
C21_CreateLVExhausted ==
    [][(/\ lvd'.flip # lvd.flip
        /\ lvd'.op = "CreateLV"
        /\ lvd'.size > FreeOnHost(host, lvd'.dc))
       => /\ lvd'.err # Nil
          /\ ~lvd'.faulty => lvd'.err = CodeResourceExhausted
          /\ \A i \in 1..Len(lvd'.cmds) : lvd'.cmds[i] # "lvcreate"
          /\ host' = host
          /\ lvd'.posted = lvd.posted
          /\ lvd'.chan = lvd.chan]_vars

\* A thin CreateLV refused with a volume in the pool already and ticks
\* posted before it.
C21_Witness ==
    /\ lvd.op = "CreateLV"
    /\ lvd.err = CodeResourceExhausted
    /\ lvd.dc = ThinClass
    /\ lvd.posted > 0
    /\ lvd.size > FreeOnHost(host, lvd.dc)
    /\ \E l \in host : l.poolLV = "p"

\* What the watcher holds once it has read all there is: a message, about
\* the last tick posted, carrying the free bytes the host has since the
\* last successful mutation.
WatcherSettled ==
    (lvd.subscribed /\ lvd.chan = <<>>) =>
        /\ lvd.last.kind # "none"
        /\ lvd.last.tick = lvd.posted
        /\ ~lvd.stale => /\ lvd.last.thick = FreeOnHost(host, ThickClass)
                         /\ lvd.last.thin = FreeOnHost(host, ThinClass)

\* An RPC that fails posts no tick; one that succeeds and changed the LVs
\* posts one, the newest in the channel of a subscriber.
TickPerMutation ==
    lvd'.flip # lvd.flip =>
        /\ lvd'.err # Nil => (lvd'.posted = lvd.posted /\ lvd'.chan = lvd.chan)
        /\ (lvd'.err = Nil /\ host' # host) =>
              /\ lvd'.posted = lvd.posted + 1
              /\ lvd.subscribed =>
                    (lvd'.chan # <<>>
                     /\ lvd'.chan[Len(lvd'.chan)] = lvd'.posted)

ExistingByName(n) ==
    IF k8s.cache[n] # NoCr THEN k8s.cache[n] ELSE k8s.api[n]

CreateOps == {"CreateVolume", "CreateSnapshot"}

\* This step is the first part of a CreateVolume or CreateSnapshot call.
CreateStarts ==
    /\ K8sFree
    /\ k8s'.call.op \in CreateOps
    /\ k8s'.call # k8s.call

\* This step is a round of waitForStatusUpdate.
WaitRound ==
    /\ k8s.call.phase = "wait"
    /\ k8s'.call # k8s.call
    /\ k8s'.call.err # ErrDeadline

\* The claim as stated: a call that found a CR of its name answers
\* AlreadyExists without creating or deleting anything when the CR is
\* incompatible, and otherwise creates nothing and returns the CR's volume
\* ID (read failures and the end of the context left aside).
C23_AsStated ==
    (/\ k8s.call.op \in CreateOps
     /\ k8s.call.phase = "done"
     /\ k8s.call.found # NoCr
     /\ k8s.call.err \notin {ErrK8sRead, ErrDeadline}) =>
        IF ~IsCompatibleWith(k8s.call.found, k8s.call.req)
        THEN /\ k8s.call.err = CodeAlreadyExists
             /\ k8s.call.created = 0
             /\ k8s.call.deleted = 0
        ELSE /\ k8s.call.created = 0
             /\ k8s.call.err = Nil
             /\ k8s.call.ret # ""

\* C23 (amended): CreateVolume and CreateSnapshot for a name whose lookup
\* finds a CR: an incompatible CR gives AlreadyExists and the API server's
\* objects stay as they are; a compatible one is not created again, and the
\* call returns that CR's volume ID once its status has one, while a CR
\* whose status has a failure code and no volume ID is deleted and the code
\* returned.  A CR is created, and exactly the requested one, only when the
\* lookup finds none.
C23_IdempotentCreate ==
    [][/\ CreateStarts =>
            LET n == k8s'.call.name
                req == k8s'.call.req
                ex == ExistingByName(n)
            IN /\ k8s'.call.err = ErrK8sRead =>
                     (k8s'.api = k8s.api /\ k8s'.call.phase = "done")
               /\ k8s'.call.err # ErrK8sRead =>
                     /\ (ex # NoCr /\ ~IsCompatibleWith(ex, req)) =>
                           /\ k8s'.call.phase = "done"
                           /\ k8s'.call.err = CodeAlreadyExists
                           /\ k8s'.api = k8s.api
                     /\ (ex # NoCr /\ IsCompatibleWith(ex, req)) =>
                           /\ k8s'.call.phase = "wait"
                           /\ k8s'.api = k8s.api
                     /\ ex = NoCr =>
                           /\ k8s'.call.phase = "wait"
                           /\ k8s'.api = [k8s.api EXCEPT ![n] = req]
       /\ WaitRound =>
            LET n == k8s.call.name
                ex == ExistingByName(n)
            IN /\ (k8s'.call.phase = "done" /\ k8s'.call.err = Nil) =>
                     /\ ex # NoCr
                     /\ ex.volumeID # ""
                     /\ k8s'.call.ret = ex.volumeID
                     /\ k8s'.api = k8s.api
               /\ k8s'.api # k8s.api =>
                     /\ ex # NoCr
                     /\ ex.volumeID = ""
                     /\ ex.code # CodeOK
                     /\ k8s'.call.err = ex.code
                     /\ k8s'.call.phase = "done"
                     /\ k8s'.api[n] \in
                           {NoCr, [k8s.api[n] EXCEPT !.deleting = TRUE]}
      ]_vars

\* A second CreateVolume of a compatible request has returned the ID of
\* the CR that was there.
C23_Witness ==
    /\ k8s.call.op = "CreateVolume"
    /\ k8s.call.phase = "done"
    /\ k8s.call.found # NoCr
    /\ IsCompatibleWith(k8s.call.found, k8s.call.req)
    /\ k8s.call.created = 0
    /\ k8s.call.err = Nil
    /\ k8s.call.ret = "id1"

\* This step is the first part of a DeleteVolume call.
DeleteStarts ==
    /\ K8sFree
    /\ k8s'.call.op = "DeleteVolume"
    /\ k8s'.call # k8s.call

\* C24: DeleteVolume returns success without a delete when neither the
\* cache nor the API server has a LogicalVolume of the volume ID, and
\* success when the CR it looked up is gone from the API server by the time
\* of the delete; in every other case it returns success only from a poll
\* whose read found the CR absent, and a poll that finds the CR or whose
\* read fails goes on: only the end of the context ends it then.
C24_IdempotentDelete ==
    [][/\ DeleteStarts =>
            LET id == k8s'.call.id
                lv == k8s'.call.found
                none == /\ WithVolumeID(k8s.cache, id) = {}
                        /\ WithVolumeID(k8s.api, id) = {}
            IN /\ (none /\ k8s'.call.err # ErrK8sRead) =>
                     /\ k8s'.call.phase = "done"
                     /\ k8s'.call.err = Nil
                     /\ k8s'.call.deleted = 0
                     /\ k8s'.api = k8s.api
               /\ (lv # NoCr /\ k8s.api[lv.name] = NoCr
                     /\ k8s'.call.err # ErrK8sRead) =>
                     /\ k8s'.call.phase = "done"
                     /\ k8s'.call.err = Nil
                     /\ k8s'.api = k8s.api
               /\ (k8s'.call.phase = "done" /\ k8s'.call.err = Nil) =>
                     \/ none
                     \/ lv # NoCr /\ k8s.api[lv.name] = NoCr
               /\ (lv # NoCr /\ k8s.api[lv.name] # NoCr
                     /\ k8s'.call.err = Nil) =>
                     /\ k8s'.call.phase = "poll"
                     /\ k8s'.call.deleted = 1
       /\ (k8s.call.phase = "poll" /\ k8s'.call.phase # "poll") =>
            \/ /\ k8s'.call.err = Nil
               /\ k8s.cache[k8s.call.name] = NoCr
               /\ k8s.api[k8s.call.name] = NoCr
            \/ k8s'.call.err = ErrDeadline
      ]_vars

\* A DeleteVolume that deleted the CR, polled while the CR was still there
\* and returned success once it was gone.
C24_Witness ==
    /\ k8s.call.op = "DeleteVolume"
    /\ k8s.call.phase = "done"
    /\ k8s.call.err = Nil
    /\ k8s.call.deleted = 1
    /\ k8s.call.polled
    /\ k8s.api[k8s.call.name] = NoCr

\* This step is a GetVolume call.
GetStarts ==
    /\ K8sFree
    /\ k8s'.call.op = "GetVolume"
    /\ k8s'.call # k8s.call

\* The one object of a store with the volume ID is what the call returned.
ReturnedFrom(store, id) ==
    /\ k8s'.call.err = Nil
    /\ \E n \in WithVolumeID(store, id) : k8s'.call.found = store[n]

\* The claim as stated: the API server's one LogicalVolume of the ID is
\* returned also when the cache has none; ErrVolumeNotFound only when
\* neither holds one; an error whenever more than one carries the ID, in
\* the cache or in the API server (reads that fail left aside).
C25_AsStated ==
    [][(GetStarts /\ k8s'.call.err # ErrK8sRead) =>
          LET id == k8s'.call.id
              inCache == WithVolumeID(k8s.cache, id)
              inApi == WithVolumeID(k8s.api, id)
          IN /\ (Cardinality(inApi) = 1 /\ inCache = {}) =>
                   ReturnedFrom(k8s.api, id)
             /\ k8s'.call.err = ErrVolumeNotFound =>
                   (inCache = {} /\ inApi = {})
             /\ (Cardinality(inCache) > 1 \/ Cardinality(inApi) > 1) =>
                   k8s'.call.err # Nil
      ]_vars

\* C25 (amended): GetVolume(id) returns the API server's one LogicalVolume
\* of the ID when the cache has none of that ID; ErrVolumeNotFound is
\* returned only when neither the cache nor the API server holds one; an
\* error is returned whenever the cache holds more than one of the ID, or
\* the cache holds none and the API server more than one; a single one in
\* the cache is returned as it is.
C25_ReadAfterCreate ==
    [][(GetStarts /\ k8s'.call.err # ErrK8sRead) =>
          LET id == k8s'.call.id
              inCache == WithVolumeID(k8s.cache, id)
              inApi == WithVolumeID(k8s.api, id)
          IN /\ (Cardinality(inApi) = 1 /\ inCache = {}) =>
                   ReturnedFrom(k8s.api, id)
             /\ k8s'.call.err = ErrVolumeNotFound =>
                   (inCache = {} /\ inApi = {})
             /\ (inCache = {} /\ inApi = {}) =>
                   k8s'.call.err = ErrVolumeNotFound
             /\ (\/ Cardinality(inCache) > 1
                 \/ inCache = {} /\ Cardinality(inApi) > 1) =>
                   k8s'.call.err = ErrMultiple
             /\ Cardinality(inCache) = 1 => ReturnedFrom(k8s.cache, id)
      ]_vars

\* GetVolume has returned a LogicalVolume that the API server holds and the
\* cache does not have yet.
C25_Witness ==
    /\ k8s.call.op = "GetVolume"
    /\ k8s.call.err = Nil
    /\ k8s.call.found # NoCr
    /\ k8s.call.found.volumeID = k8s.call.id
    /\ k8s.cache[k8s.call.found.name] = NoCr
    /\ k8s.api[k8s.call.found.name] = k8s.call.found

(***************************************************************************)
(* The controller's capacity policy.                                        *)
(***************************************************************************)
\* C26: MinMaxAllocationsFromSettings returns the larger of required and
\* GetMinimumAllocationSize(deviceClass, capabilities) as required and the
\* limit as it came, whatever the input: also when that exceeds a positive
\* limit, and with the minimum 0 when nothing is configured.
C26_MinMax ==
    drv.op = "MinMaxAllocationsFromSettings" =>
        LET m == GetMinimumAllocationSize(drv.settings, drv.deviceClass,
                                          drv.capabilities)
        IN /\ drv.out.required = IF m > drv.required THEN m ELSE drv.required
           /\ drv.out.required >= drv.required
           /\ drv.out.required >= m
           /\ drv.out.limit = drv.limit

\* The minimum was applied although it is above the positive limit.
C26_Witness ==
    /\ drv.op = "MinMaxAllocationsFromSettings"
    /\ drv.limit > 0
    /\ drv.out.required > drv.limit
    /\ drv.out.required > drv.required
    /\ drv.out.limit = drv.limit

\* The positions of the capabilities that are Block or Mount.
Deciding(capabilities) ==
    {i \in 1..Len(capabilities) : capabilities[i].kind \in {"block", "mount"}}

\* The settings the lookup chain gives for a device class: the class's own
\* when the configuration has the class, else the default.
ChainSettings(settings, deviceClass) ==
    IF deviceClass \in DOMAIN settings.Minimum.ByDeviceClass
    THEN settings.Minimum.ByDeviceClass[deviceClass]
    ELSE settings.Minimum.Default

\* C27: GetMinimumAllocationSize is decided by the first capability that is
\* Block or Mount, whatever follows it: Block gives the block minimum of the
\* device class's settings when the class is configured, else of the
\* default; Mount{fs} gives filesystem[fs] of the same settings; without
\* such a capability or without a configured value the result is 0, and a
\* negative quantity gives 0.
C27_FirstCapability ==
    drv.op = "GetMinimumAllocationSize" =>
        LET d == Deciding(drv.capabilities)
            first == CHOOSE i \in d : \A j \in d : i <= j
            c == drv.capabilities[first]
            s == ChainSettings(drv.settings, drv.deviceClass)
            configured == IF c.kind = "block" THEN s.Block
                          ELSE IF c.fsType \in DOMAIN s.Filesystem
                               THEN s.Filesystem[c.fsType]
                               ELSE 0
        IN /\ drv.out.quantity >= 0
           /\ d = {} => drv.out.quantity = 0
           /\ d # {} =>
                drv.out.quantity = IF configured < 0 THEN 0 ELSE configured

\* A Mount capability followed by a Block capability: the class's ext4
\* minimum is the result, not its block minimum.
C27_Witness ==
    /\ drv.op = "GetMinimumAllocationSize"
    /\ Len(drv.capabilities) = 2
    /\ drv.capabilities[1] = CapMount("ext4")
    /\ drv.capabilities[2] = CapBlock
    /\ drv.deviceClass = "ssd"
    /\ "ssd" \in DOMAIN drv.settings.Minimum.ByDeviceClass
    /\ drv.settings.Minimum.ByDeviceClass["ssd"].Block = 4
    /\ drv.out.quantity = 6

RangeErrors ==
    {ErrNoNegativeRequestBytes, ErrNoNegativeLimitBytes,
     ErrRequestedExceedsLimit}

\* C28: convertRequestCapacityBytes checks the range in a fixed order:
\* required < 0 gives NegativeRequired, also when limit < 0; otherwise
\* limit < 0 gives NegativeLimit; otherwise limit > 0 and required > limit
\* gives RequestExceedsLimit; none of these returns a byte value.
C28_ErrorOrder ==
    drv.op = "convertRequestCapacityBytes" =>
        /\ drv.required < 0 => drv.err = ErrNoNegativeRequestBytes
        /\ (drv.required >= 0 /\ drv.limit < 0) =>
              drv.err = ErrNoNegativeLimitBytes
        /\ (drv.required >= 0 /\ drv.limit > 0 /\ drv.required > drv.limit) =>
              drv.err = ErrRequestedExceedsLimit
        /\ drv.err \in RangeErrors => drv.out.bytes = 0

\* Both values negative: the required one is reported.
C28_Witness ==
    /\ drv.op = "convertRequestCapacityBytes"
    /\ drv.required < 0
    /\ drv.limit < 0
    /\ drv.err = ErrNoNegativeRequestBytes
    /\ drv.out.bytes = 0

\* The requested size rounded up to a sector.
Aligned(x) ==
    CHOOSE m \in x..(x + MinimumSectorSize - 1) : m % MinimumSectorSize = 0

\* Every value returned is a positive multiple of the sector size, at least
\* the required size and within a positive limit.
ReturnedInRange ==
    (drv.op = "convertRequestCapacityBytes" /\ drv.err = Nil) =>
        /\ drv.out.bytes > 0
        /\ drv.out.bytes % MinimumSectorSize = 0
        /\ drv.out.bytes >= drv.required
        /\ drv.limit > 0 => drv.out.bytes <= drv.limit

AlignedDown(x) ==
    CHOOSE m \in (x - MinimumSectorSize + 1)..x : m % MinimumSectorSize = 0

\* The claim as stated: for required = 0 the result is 1 GiB without a
\* limit, and with a limit min(1 GiB, limit) rounded up to a sector when
\* that is within the limit, RoundingToZero otherwise.
C31_AsStated ==
    (drv.op = "convertRequestCapacityBytes" /\ drv.required = 0) =>
        /\ drv.limit = 0 => (drv.err = Nil /\ drv.out.bytes = DefaultSize)
        /\ drv.limit > 0 =>
              LET m == IF DefaultSize < drv.limit THEN DefaultSize
                       ELSE drv.limit
              IN IF Aligned(m) <= drv.limit
                 THEN drv.err = Nil /\ drv.out.bytes = Aligned(m)
                 ELSE drv.err = ErrResultingRequestIsZero

\* C31 (amended): for required = 0, ConvertRequestCapacity(0, 0) returns
\* 1 GiB; for limit > 0 it returns min(1 GiB, limit) rounded down to a
\* multiple of the sector size, and fails with RoundingToZero when that is
\* 0 (the limit is below one sector).
C31_ZeroRequired ==
    (drv.op = "convertRequestCapacityBytes" /\ drv.required = 0) =>
        /\ drv.limit = 0 => (drv.err = Nil /\ drv.out.bytes = DefaultSize)
        /\ drv.limit > 0 =>
              LET m == IF DefaultSize < drv.limit THEN DefaultSize
                       ELSE drv.limit
              IN IF AlignedDown(m) > 0
                 THEN drv.err = Nil /\ drv.out.bytes = AlignedDown(m)
                 ELSE drv.err = ErrResultingRequestIsZero /\ drv.out.bytes = 0

\* No required size and a limit of two sectors: two sectors.
C31_Witness ==
    /\ drv.op = "convertRequestCapacityBytes"
    /\ drv.required = 0
    /\ drv.limit = 2 * MinimumSectorSize
    /\ drv.err = Nil
    /\ drv.out.bytes = 2 * MinimumSectorSize

\* C32: with required = 0, a limit of one sector and a byte gives one
\* sector, and a limit of one sector less a byte fails with RoundingToZero.
C32_FittedUnderLimit ==
    (drv.op = "convertRequestCapacityBytes" /\ drv.required = 0) =>
        /\ drv.limit = MinimumSectorSize + 1 =>
              (drv.err = Nil /\ drv.out.bytes = MinimumSectorSize)
        /\ drv.limit = MinimumSectorSize - 1 =>
              (drv.err = ErrResultingRequestIsZero /\ drv.out.bytes = 0)

C32_Witness ==
    /\ drv.op = "convertRequestCapacityBytes"
    /\ drv.required = 0
    /\ drv.limit = MinimumSectorSize + 1
    /\ drv.out.bytes = MinimumSectorSize

\* C33: a value the conversion returned, passed in again as the required
\* size and as the limit, is returned as it is.
C33_Idempotent ==
    drv.op = "convertResult" =>
        /\ drv.err = Nil
        /\ drv.out.bytes = drv.required

\* The sector that (0, sector + 1) gave has been converted again.
C33_Witness ==
    /\ drv.op = "convertResult"
    /\ drv.required = MinimumSectorSize
    /\ drv.limit = MinimumSectorSize
    /\ drv.out.bytes = MinimumSectorSize

(***************************************************************************)
(* The in-process clients of NewLocal.                                      *)
(***************************************************************************)
ClientOps == {"client.CreateLV", "client.ResizeLV", "client.RemoveLV"}

\* What the server's method of a client call returns for the same request.
ServerResult(opName, dc, name, size, h, f) ==
    IF opName = "client.CreateLV" THEN CreateLV(cmdImpl, dc, name, size, h, f)
    ELSE IF opName = "client.ResizeLV"
    THEN ResizeLV(cmdImpl, dc, name, size, h, f)
    ELSE RemoveLV(cmdImpl, dc, name, h, f)

\* C34: a call on a client NewLocal returned gives the response and the
\* error the server's method gives for the same request, and leaves the
\* host as that does.
C34_ClientsForward ==
    [][(lvd'.flip # lvd.flip /\ lvd'.op \in ClientOps) =>
          \E f \in FaultSeqs :
              LET r == ServerResult(lvd'.op, lvd'.dc, lvd'.name, lvd'.size,
                                    host, f)
              IN lvd'.err = r.err /\ host' = r.host /\ lvd'.cmds = r.cmds
      ]_vars

(***************************************************************************)
(* The StorageManager's accounting.                                         *)
(***************************************************************************)
\* C35: currentStorageUsage never exceeds the storage limit and equals the
\* sum of the sizes of the loop devices in managedLoopDevices, and an
\* Allocate or a Release that fails leaves both as they were.
C35_UsageAccounted ==
    [][sm' # sm =>
         /\ sm'.currentStorageUsage <= totalStorageLimit
         /\ sm'.currentStorageUsage =
                SumDeviceSizes(sm'.managedLoopDevices,
                         MapIds(sm'.managedLoopDevices))
         /\ (sm'.err # Nil =>
                 /\ sm'.currentStorageUsage = sm.currentStorageUsage
                 /\ sm'.managedLoopDevices = sm.managedLoopDevices)
      ]_vars

(***************************************************************************)
(* Two CreateLV RPCs racing on one device class.                            *)
(***************************************************************************)
\* The volumes the two RPCs created.
CreatedOn(h) == {l \in h : l.name \in {NameOf(c) : c \in Callers}}

\* C36 as stated: whatever the interleaving of two CreateLV RPCs on one
\* device class, the volumes created never add up to more than the free
\* bytes the class had beforehand.
C36_AsStated ==
    rpc.op = "CreateLV" =>
        SumSizes(CreatedOn(host)) <= FreeOnHost(LvdHost, rpc.dc)

\* C36: on a thick class the volumes created never add up to more than the
\* free bytes the volume group had beforehand; on either class a call that
\* created a volume asked for no more than the class had free on the host
\* its own check read.
C36_CheckedThenCreated ==
    rpc.op = "CreateLV" =>
        /\ (~IsThinClass(rpc.dc) =>
                SumSizes(CreatedOn(host)) <= FreeOnHost(LvdHost, rpc.dc))
        /\ \A c \in Callers :
              (rpc.calls[c].pc = "done" /\ rpc.calls[c].err = Nil) =>
                  /\ rpc.calls[c].size <= FreeOnHost(rpc.calls[c].seen, rpc.dc)
                  /\ \E l \in host : l.name = NameOf(c)

\* Both calls passed their checks before either lvcreate ran, and both
\* volumes were created on the thin class.
C36_Witness ==
    /\ rpc.op = "CreateLV" /\ IsThinClass(rpc.dc)
    /\ \A c \in Callers : rpc.calls[c].pc = "done" /\ rpc.calls[c].err = Nil
    /\ \A c \in Callers : rpc.calls[c].seen = LvdHost

(***************************************************************************)
(* What decides a CreateVolume / CreateSnapshot that waits.                 *)
(***************************************************************************)
\* The status of a CR decides the wait: it has a volume ID or a failure code.
Decided(cr) == cr # NoCr /\ (cr.volumeID # "" \/ cr.code # CodeOK)

\* C37: a round of the wait ends the call only on a CR it could read whose
\* status is decided.  With a volume ID the call returns exactly that ID
\* and no error, and the API server's objects stay; with a failure code and
\* no ID the delete is issued and the code returned, whether or not the
\* delete took effect.  The call never returns an empty ID without an
\* error, and a round on a CR that is absent or undecided goes on waiting
\* and changes nothing: only the end of the context ends the call then.
C37_WaitDecides ==
    [][/\ WaitRound =>
            LET n == k8s.call.name
                ex == ExistingByName(n)
            IN /\ k8s'.call.phase \in {"wait", "done"}
               /\ k8s'.call.phase = "done" =>
                     /\ Decided(ex)
                     /\ IF ex.volumeID # ""
                        THEN /\ k8s'.call.ret = ex.volumeID
                             /\ k8s'.call.err = Nil
                             /\ k8s'.api = k8s.api
                             /\ k8s'.call.deleted = 0
                        ELSE /\ k8s'.call.ret = ""
                             /\ k8s'.call.err = ex.code
                             /\ k8s'.call.deleted = 1
                             /\ k8s'.api[n] \in
                                   {k8s.api[n], NoCr,
                                    [k8s.api[n] EXCEPT !.deleting = TRUE]}
               /\ ~Decided(ex) => k8s'.call.phase = "wait"
               /\ k8s'.call.phase = "wait" =>
                     (k8s'.api = k8s.api /\ k8s'.call.ret = "")
       /\ (k8s.call.op \in CreateOps /\ k8s.call.phase = "wait"
             /\ k8s'.call.phase = "done") =>
            \/ k8s'.call.err = ErrDeadline /\ k8s'.call.ret = ""
            \/ k8s'.call.err = Nil /\ k8s'.call.ret # ""
            \/ k8s'.call.err \notin {Nil, ErrDeadline} /\ k8s'.call.ret = ""
      ]_vars

\* A call whose wait polled an undecided CR, then read a failure code and
\* returned it although its delete failed: the CR is still there.
C37_Witness ==
    /\ k8s.call.op \in CreateOps
    /\ k8s.call.phase = "done"
    /\ k8s.call.polled
    /\ k8s.call.err = CodeInternal
    /\ k8s.call.deleted = 1
    /\ k8s.api[k8s.call.name] # NoCr
    /\ ~k8s.api[k8s.call.name].deleting

(***************************************************************************)
(* ExpandVolume.                                                            *)
(***************************************************************************)
\* This step is the first part of an ExpandVolume call.
ExpandStarts ==
    /\ K8sFree
    /\ k8s'.call.op = "ExpandVolume"
    /\ k8s'.call # k8s.call

\* This step is an attempt of updateSpecSize.
UpdateRound ==
    /\ k8s.call.phase = "update"
    /\ k8s'.call # k8s.call
    /\ k8s'.call.err # ErrDeadline

\* This step is a round of ExpandVolume's poll.
ExpandRound ==
    /\ k8s.call.phase = "expand"
    /\ k8s'.call # k8s.call
    /\ k8s'.call.err # ErrDeadline

\* No LogicalVolume of the ID, in the cache or in the API server.
UnknownID(id) == WithVolumeID(k8s.cache, id) = {} /\ WithVolumeID(k8s.api, id) = {}

\* C38: ExpandVolume(id, S) returns success only from a poll round on a CR
\* with spec.size = S, status.code OK and status.currentSize set and equal
\* to spec.size; a round that ends the call with an error read spec.size =
\* S with a failure code and returns that code; a round on a CR whose
\* currentSize is missing or differs goes on; and a call for an ID that no
\* LogicalVolume has fails and leaves the API server's objects as they are.
C38_ExpandWaits ==
    [][/\ ExpandStarts =>
            /\ k8s'.api = k8s.api
            /\ k8s'.call.phase \in {"done", "update"}
            /\ k8s'.call.phase = "done" => k8s'.call.err # Nil
            /\ UnknownID(k8s'.call.id) =>
                  /\ k8s'.call.phase = "done"
                  /\ k8s'.call.err \in {ErrVolumeNotFound, ErrK8sRead}
       /\ UpdateRound =>
            /\ k8s'.call.phase = "done" =>
                  (k8s'.call.err # Nil /\ k8s'.api = k8s.api)
            /\ UnknownID(k8s.call.id) =>
                  (k8s'.call.phase = "done" /\ k8s'.api = k8s.api)
            /\ k8s'.api # k8s.api =>
                  /\ k8s'.call.phase = "expand"
                  /\ \E n \in WithVolumeID(k8s.api, k8s.call.id) :
                        k8s'.api = [k8s.api EXCEPT ![n].size = k8s.call.size]
       /\ ExpandRound =>
            LET ex == ExistingByName(k8s.call.name)
                S == k8s.call.size
            IN /\ k8s'.api = k8s.api
               /\ (k8s'.call.phase = "done" /\ k8s'.call.err = Nil) =>
                     /\ ex # NoCr
                     /\ ex.size = S
                     /\ ex.code = CodeOK
                     /\ ex.currentSize # <<>>
                     /\ ex.currentSize[1] = ex.size
               /\ (k8s'.call.phase = "done" /\ k8s'.call.err # Nil) =>
                     /\ ex # NoCr
                     /\ ex.size = S
                     /\ ex.code # CodeOK
                     /\ k8s'.call.err = ex.code
               /\ (\/ ex = NoCr
                   \/ ex.size # S
                   \/ ex.code = CodeOK /\ ex.currentSize # <<ex.size>>) =>
                     k8s'.call.phase = "expand"
       /\ (/\ k8s'.call.op = "ExpandVolume"
           /\ k8s'.call # k8s.call
           /\ k8s'.call.phase = "done"
           /\ k8s'.call.err = Nil) => k8s.call.phase = "expand"
      ]_vars

\* An ExpandVolume to a larger size that wrote spec.size, polled while the
\* node's controller had not resized the volume yet, and returned success
\* once currentSize had reached spec.size.
C38_Witness ==
    /\ k8s.call.op = "ExpandVolume"
    /\ k8s.call.phase = "done"
    /\ k8s.call.err = Nil
    /\ k8s.call.polled
    /\ k8s.call.size = 2
    /\ k8s.api["v1"] # NoCr
    /\ k8s.api["v1"].size = 2
    /\ k8s.api["v1"].currentSize = <<2>>

(***************************************************************************)
(* A negative required size through MinMaxAllocationsFromSettings.          *)
(***************************************************************************)
\* The claim as stated: a negative required comes back unchanged, and the
\* conversion of what was returned fails with the error of a negative
\* required.
C39_AsStated ==
    drv.required < 0 =>
        /\ drv.op \in {"MinMaxAllocationsFromSettings", "convertAllocations"}
              => drv.out.required = drv.required
        /\ drv.op = "convertAllocations"
              => drv.err = ErrNoNegativeRequestBytes

\* C39 (amended): a negative required is raised to the minimum, which is 0
\* when nothing is configured and never negative, while the limit comes
\* back as it was; the conversion of what was returned never fails with
\* the error of a negative required, and fails with that of a negative
\* limit exactly when the limit is negative.
C39_NegativeRaised ==
    drv.required < 0 =>
        /\ drv.op \in {"MinMaxAllocationsFromSettings", "convertAllocations"} =>
              /\ drv.out.required >= 0
              /\ drv.out.limit = drv.limit
              /\ drv.capabilities = <<>> => drv.out.required = 0
              /\ drv.out.required =
                    GetMinimumAllocationSize(drv.settings, drv.deviceClass,
                                             drv.capabilities)
        /\ drv.op = "convertAllocations" =>
              /\ drv.err # ErrNoNegativeRequestBytes
              /\ drv.err = ErrNoNegativeLimitBytes <=> drv.limit < 0

\* A negative required with no minimum configured was converted to the
\* default size.
C39_Witness ==
    /\ drv.op = "convertAllocations"
    /\ drv.required < 0
    /\ drv.limit = 0
    /\ drv.out.required = 0
    /\ drv.err = Nil
    /\ drv.out.bytes = DefaultSize

(***************************************************************************)
(* FindPool and the kind of the LV it returns.                              *)
(***************************************************************************)
\* C40: a FindPool(name) that succeeded holds a ThinPool of an LV that is a
\* thin pool and is called name, so an LV that ListVolumes lists (one that
\* is no thin pool) is never returned as a pool; and FindPool(name) on a
\* host whose LV of that name is no thin pool does not succeed.
C40_FindPoolIsPool ==
    op.name = "FindPool" =>
        /\ op.err = Nil =>
              /\ poolVal # <<>>
              /\ poolVal[1].state.name = op.argName
              /\ isThinPool(poolVal[1].state)
        /\ (\E l \in host : /\ l.vgName = vgVal[1].state.name
                            /\ l.name = op.argName
                            /\ ~isThinPool(l)) => op.err # Nil

====
